---- MODULE Spec2Model ----
(***************************************************************************)
(* StrategyUI: the radial layout strategies (wheel, spiral) and the entry  *)
(* widget lifecycle of UBaseStrategyWidget / URadialStrategyWidget.        *)
(*                                                                         *)
(* Angles are whole degrees.  The segment counts used keep 360/s and half  *)
(* of it whole, so the float arithmetic of the source is exact on them.    *)
(***************************************************************************)
EXTENDS Integers, Sequences, FiniteSets, TLC

----------------------------------------------------------------------------
(* Bounds of the model *)

\* widget instances a class-keyed pool can hold per class
MaxWidgets == 4
\* request ids the loader can have outstanding
MaxRequests == 4
\* the pointer stays within this many half-wedges of angle 0
MaxPointerHalfSteps == 1
\* segment counts, item counts, window sizes and pad sizes a strategy is
\* initialized with when its functions are called directly
MaxSegments == 4
MaxItems == 5
MaxWindow == 3
MaxPad == 1
\* the pointer angles set directly stay within this many turns of angle 0
MaxPointerTurns == 2
\* the global indices mapped directly stay within this distance of 0
MaxGlobalIndex == 10
\* how far below zero an editable property of the strategy is set
MaxBelowZero == 1
\* the pointer angles and the durations, in ticks, of the scroll animations
MaxAnimationAngle == 120
MaxAnimationTicks == 2

----------------------------------------------------------------------------
(* Program constants *)

INDEX_NONE == -1
MAX_ENTRY_COUNT == 64
FullTurn == 360
BaseRadius == 400
\* the resolution float32 angles are modelled at: 2^17 units to the degree
UnitsPerDegree == 131072

\* results a float-to-int conversion of NaN or infinity can produce
UndefinedInt32 == {-2147483647 - 1, 2147483647}

Pooled == "Pooled"
Loading == "Loading"
Active == "Active"
Deactivated == "Deactivated"
Focused == "Focused"
Selected == "Selected"
EntryLifecycleTags == {Pooled, Loading, Active, Deactivated}
EntryInteractionTags == {Focused, Selected}

\* the null widget, and the two widget classes the host asks the pool for
NoWidget == <<"None", 0>>
EntryClass == "Entry"
PlaceholderClass == "Placeholder"
NoItem == 0

\* item arrays SetItems is called with
ItemArrays == {<< >>, <<1, 2>>}

ZeroVector == <<0, 0>>

----------------------------------------------------------------------------
(* Arithmetic helpers of FMath *)

Min(a, b) == IF a < b THEN a ELSE b
Max(a, b) == IF a > b THEN a ELSE b
Clamp(x, lo, hi) == IF x < lo THEN lo ELSE IF x > hi THEN hi ELSE x
Abs(x) == IF x < 0 THEN -x ELSE x
\* C fmod: the remainder has the sign of the dividend
Fmod(a, m) == IF a >= 0 THEN a % m ELSE -((-a) % m)
\* C integer %: truncated
CMod(a, m) == IF a >= 0 THEN a % Abs(m) ELSE -((-a) % Abs(m))

\* sequencing: the value v of one statement, handed to the statements after it
Then(v, F(_)) == CHOOSE r \in {F(x) : x \in {v}} : TRUE

----------------------------------------------------------------------------
VARIABLES
    LayoutStrategy,            \* "None", "Spiral" or "Wheel"
    DefaultEntryWidgetClass,   \* TRUE when a default entry class is set
    bShowLoadingPlaceholders,
    Items,
    GlobalIndexToSlotData,
    GlobalIndexToRequestId,
    SelectedDataIndices,
    FocusedGlobalIndex,
    FocusedDataIndex,
    CurrentPointerAngle,
    RuntimeScrollingAnimState, \* the scroll animation of the radial widget
    \* the layout strategy object
    NumItems,
    RadialSegmentCount,
    MaxVisibleEntries,
    NumDeactivatedEntries,
    GapPaddingSegments,
    AngularSpacing,
    LatestPointerAngle,
    VisibleStartIndex,
    VisibleEndIndex,
    \* the widget loader subsystem
    PoolActive,                \* widgets checked out of the class-keyed pools
    LoaderPending,             \* request ids still in flight
    LoaderCancelled,           \* request ids cancelled in flight, their callback still due
    EntryClassLoaded,          \* the soft entry class is resident
    NextRequestId,             \* the id the next request gets
    \* observation
    trace,                     \* what the last handler did, in order
    lastOp,
    repeatCall,                \* the last step was UpdateWidgets right after a reconciliation
    crashed,                   \* a fatal check() was hit
    callArg,                   \* the argument of the last direct call of a strategy function
    callResult                 \* and the value it returned

vars == <<LayoutStrategy, DefaultEntryWidgetClass, bShowLoadingPlaceholders,
          Items, GlobalIndexToSlotData, GlobalIndexToRequestId,
          SelectedDataIndices, FocusedGlobalIndex, FocusedDataIndex,
          CurrentPointerAngle, RuntimeScrollingAnimState,
          NumItems, RadialSegmentCount, MaxVisibleEntries,
          NumDeactivatedEntries, GapPaddingSegments, AngularSpacing,
          LatestPointerAngle, VisibleStartIndex, VisibleEndIndex,
          PoolActive, LoaderPending, LoaderCancelled, EntryClassLoaded, NextRequestId, trace, lastOp, repeatCall, crashed,
          callArg, callResult>>

EmptyMap == [x \in {} |-> 0]

\* the whole program state as one record, the form the handlers work on
Host == [
    LayoutStrategy |-> LayoutStrategy,
    DefaultEntryWidgetClass |-> DefaultEntryWidgetClass,
    bShowLoadingPlaceholders |-> bShowLoadingPlaceholders,
    Items |-> Items,
    GlobalIndexToSlotData |-> GlobalIndexToSlotData,
    GlobalIndexToRequestId |-> GlobalIndexToRequestId,
    SelectedDataIndices |-> SelectedDataIndices,
    FocusedGlobalIndex |-> FocusedGlobalIndex,
    FocusedDataIndex |-> FocusedDataIndex,
    CurrentPointerAngle |-> CurrentPointerAngle,
    RuntimeScrollingAnimState |-> RuntimeScrollingAnimState,
    NumItems |-> NumItems,
    RadialSegmentCount |-> RadialSegmentCount,
    MaxVisibleEntries |-> MaxVisibleEntries,
    NumDeactivatedEntries |-> NumDeactivatedEntries,
    GapPaddingSegments |-> GapPaddingSegments,
    AngularSpacing |-> AngularSpacing,
    LatestPointerAngle |-> LatestPointerAngle,
    VisibleStartIndex |-> VisibleStartIndex,
    VisibleEndIndex |-> VisibleEndIndex,
    PoolActive |-> PoolActive,
    LoaderPending |-> LoaderPending,
    LoaderCancelled |-> LoaderCancelled,
    EntryClassLoaded |-> EntryClassLoaded,
    NextRequestId |-> NextRequestId,
    trace |-> << >>,
    crashed |-> FALSE,
    overflow |-> FALSE,
    ret |-> NoWidget,
    retId |-> INDEX_NONE ]

----------------------------------------------------------------------------
(* The layout strategies *)

GetItemCount(h) == Len(h.Items)

\* URadialLayoutStrategy::UpdateAngularSpacing
UpdateAngularSpacing(h) ==
    [h EXCEPT !.AngularSpacing =
        IF h.RadialSegmentCount > 0 THEN FullTurn \div h.RadialSegmentCount ELSE 0]

\* a spiral that never pads its last turn
UpdateGapSegmentsNoPadding(h, TotalItems) == [h EXCEPT !.GapPaddingSegments = 0]

\* USpiralLayoutStrategy::UpdateGapSegments; with a zero segment count the
\* int32 modulo divides by zero, which is undefined: the run is marked and
\* not followed further
SpiralUpdateGapSegments(h, TotalItems) ==
    IF h.RadialSegmentCount = 0 THEN [h EXCEPT !.crashed = TRUE]
    ELSE
    LET Remainder == CMod(TotalItems, h.RadialSegmentCount)
        Needed == h.RadialSegmentCount - Remainder
    IN  [h EXCEPT !.GapPaddingSegments =
            IF Remainder = 0 THEN 0 ELSE Clamp(Needed, 0, h.RadialSegmentCount)]

\* UWheelLayoutStrategy::UpdateGapSegments
WheelUpdateGapSegments(h, TotalItems) ==
    [h EXCEPT !.GapPaddingSegments = Max(0, h.RadialSegmentCount - TotalItems)]

UpdateGapSegments(h, TotalItems) ==
    IF h.LayoutStrategy = "Wheel" THEN WheelUpdateGapSegments(h, TotalItems)
    ELSE SpiralUpdateGapSegments(h, TotalItems)

\* URadialLayoutStrategy::ValidateStrategy: the messages it adds
ValidateStrategy(h) ==
    (IF h.RadialSegmentCount <= 0
     THEN <<"RadialSegmentCount must be greater than 0!">> ELSE << >>)
    \o (IF h.MaxVisibleEntries <= 0
        THEN <<"MaxVisibleEntries must be greater than 0!">> ELSE << >>)

\* UBaseLayoutStrategy::InitializeStrategy
BaseInitializeStrategy(h) ==
    [h EXCEPT !.MaxVisibleEntries = Clamp(@, 1, MAX_ENTRY_COUNT)]

\* URadialLayoutStrategy::InitializeStrategy
RadialInitializeStrategy(h) ==
    Then([BaseInitializeStrategy(h) EXCEPT !.NumItems = GetItemCount(h)], LAMBDA h1 :
        UpdateAngularSpacing(UpdateGapSegments(h1, h1.NumItems)))

\* a wheel that keeps the spacing of the segment count it had before growing
WheelInitializeStrategyStaleSpacing(h) ==
    Then(RadialInitializeStrategy(h), LAMBDA h1 :
    Then(IF h1.NumItems > h1.RadialSegmentCount
         THEN [h1 EXCEPT !.RadialSegmentCount = h1.NumItems] ELSE h1, LAMBDA h2 :
    Then([h2 EXCEPT !.MaxVisibleEntries = Min(@, h2.RadialSegmentCount)], LAMBDA h3 :
        UpdateGapSegments(h3, h3.NumItems))))

\* UWheelLayoutStrategy::InitializeStrategy
WheelInitializeStrategy(h) ==
    Then(RadialInitializeStrategy(h), LAMBDA h1 :
    Then(IF h1.NumItems > h1.RadialSegmentCount
         THEN [h1 EXCEPT !.RadialSegmentCount = h1.NumItems] ELSE h1, LAMBDA h2 :
    Then([h2 EXCEPT !.MaxVisibleEntries = Min(@, h2.RadialSegmentCount)], LAMBDA h3 :
        UpdateAngularSpacing(UpdateGapSegments(h3, h3.NumItems)))))

InitializeStrategy(h) ==
    IF h.LayoutStrategy = "Wheel" THEN WheelInitializeStrategy(h)
    ELSE RadialInitializeStrategy(h)

\* UWheelLayoutStrategy::SanitizeAngle
WheelSanitizeAngle(InAngle) ==
    LET WorkingAngle == Fmod(InAngle, FullTurn)
    IN  IF WorkingAngle < 0 THEN WorkingAngle + FullTurn ELSE WorkingAngle

\* float32 angles near a full turn, in units of 2^-17 degree: a float below
\* 2^24 units is a whole number of units, one below 2^25 an even number,
\* one below 2^26 a multiple of 4, one below 2^27 a multiple of 8
FloatQuantum(v) ==
    IF Abs(v) < 16777216 THEN 1
    ELSE IF Abs(v) < 33554432 THEN 2
    ELSE IF Abs(v) < 67108864 THEN 4 ELSE 8

\* the float32 nearest to the real v, ties to the even mantissa
RoundToFloat(v) ==
    LET q == FloatQuantum(v)
        lo == (Abs(v) \div q) * q
        rem == Abs(v) - lo
        r == IF 2 * rem < q THEN lo
             ELSE IF 2 * rem > q THEN lo + q
             ELSE IF (lo \div q) % 2 = 0 THEN lo ELSE lo + q
    IN  IF v < 0 THEN -r ELSE r

IsFloat(v) == RoundToFloat(v) = v

\* UWheelLayoutStrategy::SanitizeAngle in float32, the angle in units of
\* 2^-17 degree: fmodf is exact, the sum with 360.f is rounded
WheelSanitizeAngleFloat(InAngle) ==
    LET WorkingAngle == Fmod(InAngle, FullTurn * UnitsPerDegree)
    IN  IF WorkingAngle < 0
        THEN RoundToFloat(WorkingAngle + FullTurn * UnitsPerDegree)
        ELSE WorkingAngle

\* URadialLayoutStrategy::SanitizeAngle (the spiral does not override it)
RadialSanitizeAngle(InAngle) == InAngle

SanitizeAngle(h, InAngle) ==
    IF h.LayoutStrategy = "Wheel" THEN WheelSanitizeAngle(InAngle)
    ELSE RadialSanitizeAngle(InAngle)

\* URadialLayoutStrategy::SetPointerAngle
SetPointerAngle(h, InAngle) ==
    [h EXCEPT !.LatestPointerAngle = SanitizeAngle(h, InAngle)]

\* a focus that takes the wedge the pointer started, not the wedge centred
\* nearest to it
FindFocusedGlobalIndexNoHalfWedge(h) ==
    IF h.AngularSpacing = 0 THEN 0 ELSE h.LatestPointerAngle \div h.AngularSpacing

\* USpiralLayoutStrategy::FindFocusedGlobalIndexByAngle
FindFocusedGlobalIndexByAngle(h) ==
    IF h.AngularSpacing = 0 THEN 0
    ELSE LET OffsetAngle == h.LatestPointerAngle + (h.AngularSpacing \div 2)
         IN  OffsetAngle \div h.AngularSpacing

\* a wheel focus that does not wrap again after adding half a wedge
WheelFindFocusedGlobalIndexNoRewrap(h) ==
    LET a0 == Fmod(h.LatestPointerAngle, FullTurn)
        a1 == IF a0 < 0 THEN a0 + FullTurn ELSE a0
    IN  IF h.AngularSpacing = 0 THEN UndefinedInt32
        ELSE {(a1 + (h.AngularSpacing \div 2)) \div h.AngularSpacing}

\* UWheelLayoutStrategy::FindFocusedGlobalIndex; a set, because with a zero
\* spacing the quotient is not finite and its conversion to int is undefined
WheelFindFocusedGlobalIndex(h) ==
    LET a0 == Fmod(h.LatestPointerAngle, FullTurn)
        a1 == IF a0 < 0 THEN a0 + FullTurn ELSE a0
        a2 == a1 + (h.AngularSpacing \div 2)
        CleanAngle == Fmod(a2, FullTurn)
    IN  IF h.AngularSpacing = 0 THEN UndefinedInt32
        ELSE {CleanAngle \div h.AngularSpacing}

FindFocusedGlobalIndex(h) ==
    IF h.LayoutStrategy = "Wheel" THEN WheelFindFocusedGlobalIndex(h)
    ELSE {FindFocusedGlobalIndexByAngle(h)}

\* a mapping that forgets the lower bound
GlobalIndexToDataIndexNoLowerBound(h, GlobalIndex) ==
    IF GlobalIndex < h.NumItems THEN GlobalIndex ELSE INDEX_NONE

\* a mapping that takes the truncated remainder as it comes
GlobalIndexToDataIndexTruncated(h, GlobalIndex) ==
    IF h.NumItems <= 0 THEN INDEX_NONE
    ELSE LET WrappedIndex == CMod(GlobalIndex, h.NumItems + h.GapPaddingSegments)
         IN  IF WrappedIndex < h.NumItems THEN WrappedIndex ELSE INDEX_NONE

\* URadialLayoutStrategy::GlobalIndexToDataIndex (used by the wheel)
RadialGlobalIndexToDataIndex(h, GlobalIndex) ==
    IF GlobalIndex >= 0 /\ GlobalIndex < h.NumItems THEN GlobalIndex ELSE INDEX_NONE

\* USpiralLayoutStrategy::GlobalIndexToDataIndex
SpiralGlobalIndexToDataIndex(h, GlobalIndex) ==
    IF h.NumItems <= 0 THEN INDEX_NONE
    ELSE LET VirtualCycle == h.NumItems + h.GapPaddingSegments
             WrappedIndex == CMod(CMod(GlobalIndex, VirtualCycle) + VirtualCycle, VirtualCycle)
         IN  IF WrappedIndex < h.NumItems THEN WrappedIndex ELSE INDEX_NONE

GlobalIndexToDataIndex(h, GlobalIndex) ==
    IF h.LayoutStrategy = "Wheel" THEN RadialGlobalIndexToDataIndex(h, GlobalIndex)
    ELSE SpiralGlobalIndexToDataIndex(h, GlobalIndex)

\* URadialLayoutStrategy::ShouldBeVisible
ShouldBeVisible(h, GlobalIndex) ==
    GlobalIndex >= h.VisibleStartIndex /\ GlobalIndex <= h.VisibleEndIndex

\* a window that starts at the focused index
ComputeDesiredGlobalIndicesFromFocus(h) ==
    [h EXCEPT !.VisibleStartIndex = FindFocusedGlobalIndexByAngle(h),
              !.VisibleEndIndex = FindFocusedGlobalIndexByAngle(h) + h.MaxVisibleEntries - 1]

\* a window one index too wide
ComputeDesiredGlobalIndicesTooWide(h) ==
    [h EXCEPT !.VisibleStartIndex =
                  FindFocusedGlobalIndexByAngle(h) - (h.MaxVisibleEntries \div 2),
              !.VisibleEndIndex =
                  FindFocusedGlobalIndexByAngle(h) - (h.MaxVisibleEntries \div 2)
                      + h.MaxVisibleEntries]

\* USpiralLayoutStrategy::ComputeDesiredGlobalIndices: the strategy with its
\* visible window updated; the returned set is DesiredOf of the result
SpiralComputeDesiredGlobalIndices(h) ==
    LET HalfWindow == h.MaxVisibleEntries \div 2
        start == FindFocusedGlobalIndexByAngle(h) - HalfWindow
    IN  [h EXCEPT !.VisibleStartIndex = start,
                  !.VisibleEndIndex = start + h.MaxVisibleEntries - 1]

\* a wheel that shows a window of MaxVisibleEntries segments
WheelComputeDesiredGlobalIndicesWindowed(h) ==
    [h EXCEPT !.VisibleStartIndex = 0,
              !.VisibleEndIndex = Min(h.MaxVisibleEntries, h.RadialSegmentCount) - 1]

\* UWheelLayoutStrategy::ComputeDesiredIndices, the wheel of the StrategyUI
\* module: the same set, the window's end one higher
WheelComputeDesiredIndices(h) ==
    [h EXCEPT !.VisibleStartIndex = 0, !.VisibleEndIndex = h.RadialSegmentCount]

\* UWheelLayoutStrategy::ComputeDesiredGlobalIndices
WheelComputeDesiredGlobalIndices(h) ==
    [h EXCEPT !.VisibleStartIndex = 0, !.VisibleEndIndex = h.RadialSegmentCount - 1]

ComputeDesiredGlobalIndices(h) ==
    IF h.LayoutStrategy = "Wheel" THEN WheelComputeDesiredGlobalIndices(h)
    ELSE SpiralComputeDesiredGlobalIndices(h)

\* the set ComputeDesiredGlobalIndices returns, from the window it just set
DesiredOf(h) ==
    IF h.LayoutStrategy = "Wheel" THEN 0 .. (h.RadialSegmentCount - 1)
    ELSE (h.VisibleStartIndex - h.NumDeactivatedEntries) ..
         (h.VisibleEndIndex + h.NumDeactivatedEntries)

\* USpiralLayoutStrategy::CalculateDistanceFactorForGlobalIndex mapped through
\* CalculateRadiusForGlobalIndex: BaseRadius + Lerp(-400, 400, factor), the
\* turn difference clamped to the threshold of 2 turns
SpiralCalculateRadiusForGlobalIndex(h, GlobalIndex) ==
    LET ItemAngleDeg == GlobalIndex * h.AngularSpacing
        Diff == Clamp(h.LatestPointerAngle - ItemAngleDeg, -2 * FullTurn, 2 * FullTurn)
    IN  BaseRadius + ((800 * (Diff + 2 * FullTurn)) \div (4 * FullTurn)) - 400

\* GetItemPosition in polar form <<angle, radius>>
GetItemPosition(h, GlobalIndex) ==
    IF h.LayoutStrategy = "Wheel"
    THEN <<Clamp(GlobalIndex, 0, h.RadialSegmentCount - 1) * h.AngularSpacing, BaseRadius>>
    ELSE <<GlobalIndex * h.AngularSpacing, SpiralCalculateRadiusForGlobalIndex(h, GlobalIndex)>>

\* the nearest angle of the data index at or below the pointer, never above
ShortestAngleFloorOnly(h, DataIndex) ==
    IF h.NumItems <= 0 THEN h.LatestPointerAngle
    ELSE LET ItemBaseAngle == DataIndex * h.AngularSpacing
             CycleStep == (h.NumItems + h.GapPaddingSegments) * h.AngularSpacing
         IN  IF CycleStep = 0 THEN ItemBaseAngle
             ELSE ItemBaseAngle
                      + ((h.LatestPointerAngle - ItemBaseAngle) \div CycleStep) * CycleStep

\* the nearest angle of the data index on a spiral whose turns hold the items
\* only, the gap forgotten
ShortestAngleIgnoringGap(h, DataIndex) ==
    IF h.NumItems <= 0 THEN h.LatestPointerAngle
    ELSE LET ItemBaseAngle == DataIndex * h.AngularSpacing
             CycleStep == h.NumItems * h.AngularSpacing
             Offset == h.LatestPointerAngle - ItemBaseAngle
             FloorAngle == ItemBaseAngle + ((Offset \div CycleStep) * CycleStep)
             CeilAngle == ItemBaseAngle + ((-((-Offset) \div CycleStep)) * CycleStep)
         IN  IF CycleStep = 0 THEN ItemBaseAngle
             ELSE IF Abs(FloorAngle - h.LatestPointerAngle)
                        <= Abs(CeilAngle - h.LatestPointerAngle)
             THEN FloorAngle ELSE CeilAngle

\* USpiralLayoutStrategy::ComputeShortestUnboundAngleForDataIndex
SpiralComputeShortestUnboundAngleForDataIndex(h, DataIndex) ==
    IF h.NumItems <= 0 THEN h.LatestPointerAngle
    ELSE LET ItemBaseAngle == DataIndex * h.AngularSpacing
             CycleStep == (h.NumItems + h.GapPaddingSegments) * h.AngularSpacing
             Offset == h.LatestPointerAngle - ItemBaseAngle
             nFloor == Offset \div CycleStep
             nCeil == -((-Offset) \div CycleStep)
             FloorAngle == ItemBaseAngle + (nFloor * CycleStep)
             CeilAngle == ItemBaseAngle + (nCeil * CycleStep)
             DistFloor == Abs(FloorAngle - h.LatestPointerAngle)
             DistCeil == Abs(CeilAngle - h.LatestPointerAngle)
         IN  IF CycleStep = 0 THEN ItemBaseAngle
             ELSE IF DistFloor <= DistCeil THEN FloorAngle ELSE CeilAngle

\* UWheelLayoutStrategy::ComputeShortestUnboundAngleForDataIndex
WheelComputeShortestUnboundAngleForDataIndex(h, DataIndex) ==
    DataIndex * h.AngularSpacing

ComputeShortestUnboundAngleForDataIndex(h, DataIndex) ==
    IF h.LayoutStrategy = "Wheel"
    THEN WheelComputeShortestUnboundAngleForDataIndex(h, DataIndex)
    ELSE SpiralComputeShortestUnboundAngleForDataIndex(h, DataIndex)

----------------------------------------------------------------------------
(* The widget loader subsystem, as the host uses it *)

MinOf(S) == CHOOSE x \in S : \A y \in S : x <= y

RemoveKey(m, k) == [x \in DOMAIN m \ {k} |-> m[x]]

Log(h, ev, g, w) == [h EXCEPT !.trace = Append(@, [ev |-> ev, g |-> g, w |-> w])]

\* UAsyncWidgetLoaderSubsystem::GetOrCreatePooledWidget: a free instance of
\* the class, checked out of its pool
GetOrCreatePooledWidget(h, class) ==
    LET free == {n \in 1..MaxWidgets : <<class, n>> \notin h.PoolActive}
    IN  IF free = {} THEN [h EXCEPT !.overflow = TRUE, !.ret = NoWidget]
        ELSE [h EXCEPT !.PoolActive = @ \cup {<<class, MinOf(free)>>},
                       !.ret = <<class, MinOf(free)>>]

\* UAsyncWidgetLoaderSubsystem::ReleaseWidgetToPool
ReleaseWidgetToPool(h, w) == [h EXCEPT !.PoolActive = @ \ {w}]

\* UAsyncWidgetLoaderSubsystem::CancelRequest
CancelRequest(h, id) ==
    [h EXCEPT !.LoaderPending = @ \ {id},
              !.LoaderCancelled = @ \cup ({id} \cap h.LoaderPending)]

\* UAsyncWidgetLoaderSubsystem::RequestWidget_Async: a widget at once when the
\* class is resident, a fresh request id when it must be loaded, neither for
\* no class
RequestWidget_Async(h, class) ==
    IF class = "None" THEN [h EXCEPT !.ret = NoWidget, !.retId = INDEX_NONE]
    ELSE IF h.EntryClassLoaded
    THEN [GetOrCreatePooledWidget(h, class) EXCEPT !.retId = INDEX_NONE]
    ELSE IF h.NextRequestId > MaxRequests
    THEN [h EXCEPT !.overflow = TRUE, !.ret = NoWidget, !.retId = INDEX_NONE]
    ELSE [h EXCEPT !.LoaderPending = @ \cup {h.NextRequestId},
                   !.NextRequestId = @ + 1,
                   !.ret = NoWidget, !.retId = h.NextRequestId]

----------------------------------------------------------------------------
(* UBaseStrategyWidget: the entry slots *)

\* a default-constructed FStrategyEntrySlotData
DefaultSlot == [Widget |-> NoWidget, CachedSlateWidget |-> NoWidget,
                TagState |-> {}, Position |-> ZeroVector, Depth |-> 0,
                LastAssignedItem |-> NoItem, bIsPlaceholder |-> FALSE]

\* FStrategyEntrySlotData::IsValid
IsValid(s) == s.Widget # NoWidget /\ s.TagState # {} /\ s.CachedSlateWidget # NoWidget

\* UUserWidget::Implements<UStrategyEntryBase>: entry widgets do, the default
\* placeholder widget does not
Implements(w) == w[1] = EntryClass

Contains(h, g) == g \in DOMAIN h.GlobalIndexToSlotData

SlotOf(h, g) == h.GlobalIndexToSlotData[g]

\* TMap::FindOrAdd
FindOrAdd(h, g) ==
    IF Contains(h, g) THEN h
    ELSE [h EXCEPT !.GlobalIndexToSlotData = (g :> DefaultSlot) @@ @]

SetSlot(h, g, s) == [h EXCEPT !.GlobalIndexToSlotData = (g :> s) @@ @]

\* Items.IsValidIndex(DataIndex) ? Items[DataIndex] : nullptr
ItemAt(h, DataIndex) ==
    IF DataIndex >= 0 /\ DataIndex < Len(h.Items) THEN h.Items[DataIndex + 1] ELSE NoItem

\* UBaseStrategyWidget::ResolveEntryWidgetClass: the items name no class of
\* their own, so the default class or none
ResolveEntryWidgetClass(h, GlobalIndex) ==
    IF h.DefaultEntryWidgetClass THEN EntryClass ELSE "None"

\* UBaseStrategyWidget::NotifyStrategyEntryStateChange
NotifyStrategyEntryStateChange(h, GlobalIndex, Widget, OldState, NewState) ==
    IF NewState # OldState
    THEN LET h1 == SetSlot(h, GlobalIndex,
                       [SlotOf(h, GlobalIndex) EXCEPT !.TagState = NewState])
         IN  IF Implements(Widget) THEN Log(h1, "TagsChanged", GlobalIndex, Widget)
             ELSE h1
    ELSE h

RECURSIVE AcquireEntryWidget(_, _)
RECURSIVE UpdateEntryLifecycleTagState(_, _, _)

\* UBaseStrategyWidget::AcquireEntryWidget; the widget returned is .ret
AcquireEntryWidget(h, GlobalIndex) ==
    IF Contains(h, GlobalIndex) /\ IsValid(SlotOf(h, GlobalIndex))
    THEN [h EXCEPT !.ret = SlotOf(h, GlobalIndex).Widget]
    ELSE IF Contains(h, GlobalIndex) /\ GlobalIndex \in DOMAIN h.GlobalIndexToRequestId
    THEN [h EXCEPT !.ret = SlotOf(h, GlobalIndex).Widget]
    ELSE
    LET DataIndex == GlobalIndexToDataIndex(h, GlobalIndex)
        DataItem == ItemAt(h, DataIndex)
        DesiredClass == ResolveEntryWidgetClass(h, GlobalIndex)
    IN
    Then(FindOrAdd(h, GlobalIndex), LAMBDA h0 :
    Then(SetSlot(h0, GlobalIndex,
             [SlotOf(h0, GlobalIndex) EXCEPT !.TagState = @ \cup {Pooled},
                                             !.LastAssignedItem = DataItem]), LAMBDA h1 :
    Then(RequestWidget_Async(h1, DesiredClass), LAMBDA h2 :
        IF h2.ret # NoWidget
        THEN Log(SetSlot(h2, GlobalIndex,
                     [SlotOf(h2, GlobalIndex) EXCEPT !.Widget = h2.ret,
                                                     !.CachedSlateWidget = h2.ret]),
                 "PoolAcquire", GlobalIndex, h2.ret)
        ELSE IF h2.retId = INDEX_NONE
        THEN Log(h2, "RequestFailed", GlobalIndex, NoWidget)
        ELSE
        Then(Log([h2 EXCEPT !.GlobalIndexToRequestId =
                                (GlobalIndex :> h2.retId) @@ @],
                 "Request", GlobalIndex, NoWidget), LAMBDA h3 :
        Then(GetOrCreatePooledWidget(h3, PlaceholderClass), LAMBDA h4 :
            IF h.bShowLoadingPlaceholders /\ h4.ret # NoWidget
            THEN
            Then(Log(SetSlot(h4, GlobalIndex,
                         [SlotOf(h4, GlobalIndex) EXCEPT !.Widget = h4.ret,
                                                         !.CachedSlateWidget = h4.ret,
                                                         !.bIsPlaceholder = TRUE]),
                     "PoolAcquire", GlobalIndex, h4.ret), LAMBDA h5 :
            Then(UpdateEntryLifecycleTagState(h5, GlobalIndex, Loading), LAMBDA h6 :
                [h6 EXCEPT !.ret = SlotOf(h6, GlobalIndex).Widget]))
            ELSE [h3 EXCEPT !.ret = NoWidget,
                            !.overflow = @ \/ (h.bShowLoadingPlaceholders /\ h4.overflow)])))))

\* a lifecycle transition that resets the whole tag container to the new tag
UpdateEntryLifecycleTagStateClearing(h, GlobalIndex, NewStateTag) ==
    SetSlot(FindOrAdd(h, GlobalIndex), GlobalIndex,
        [SlotOf(FindOrAdd(h, GlobalIndex), GlobalIndex) EXCEPT !.TagState = {NewStateTag}])

\* UBaseStrategyWidget::UpdateEntryLifecycleTagState
UpdateEntryLifecycleTagState(h, GlobalIndex, NewStateTag) ==
    IF NewStateTag \notin EntryLifecycleTags THEN h
    ELSE
    Then(FindOrAdd(h, GlobalIndex), LAMBDA h0 :
        LET OldTags == SlotOf(h0, GlobalIndex).TagState
            NewTags == (OldTags \ EntryLifecycleTags) \cup {NewStateTag}
        IN  IF NewStateTag \in OldTags THEN h0
            ELSE
            Then(SetSlot(h0, GlobalIndex,
                     [SlotOf(h0, GlobalIndex) EXCEPT !.TagState = NewTags]), LAMBDA h1 :
                IF NewTags = OldTags THEN h1
                ELSE
                Then(AcquireEntryWidget(h1, GlobalIndex), LAMBDA h2 :
                    IF h2.ret # NoWidget
                    THEN NotifyStrategyEntryStateChange(h2, GlobalIndex, h2.ret, OldTags,
                                                        SlotOf(h2, GlobalIndex).TagState)
                    ELSE h2)))

\* UBaseStrategyWidget::UpdateEntryInteractionTagState
UpdateEntryInteractionTagState(h, GlobalIndex, InteractionTag, bEnable) ==
    IF InteractionTag \notin EntryInteractionTags THEN h
    ELSE
    Then(FindOrAdd(h, GlobalIndex), LAMBDA h0 :
        LET OldTags == SlotOf(h0, GlobalIndex).TagState
            NewTags == IF bEnable THEN OldTags \cup {InteractionTag}
                       ELSE OldTags \ {InteractionTag}
        IN
        Then(SetSlot(h0, GlobalIndex,
                 [SlotOf(h0, GlobalIndex) EXCEPT !.TagState = NewTags]), LAMBDA h1 :
        Then(AcquireEntryWidget(h1, GlobalIndex), LAMBDA h2 :
            IF h2.ret = NoWidget THEN h2
            ELSE
            Then(NotifyStrategyEntryStateChange(h2, GlobalIndex, h2.ret, OldTags,
                                                SlotOf(h2, GlobalIndex).TagState), LAMBDA h3 :
                IF Implements(h2.ret)
                THEN Log(h3, IF InteractionTag = Focused THEN "FocusChanged"
                             ELSE "SelectionChanged",
                         GlobalIndex, h2.ret)
                ELSE h3))))

\* a release that hands the widget back but forgets to drop the slot
ReleaseKeepingSlot(h, GlobalIndex) ==
    IF Contains(h, GlobalIndex) /\ IsValid(SlotOf(h, GlobalIndex))
    THEN ReleaseWidgetToPool(h, SlotOf(h, GlobalIndex).Widget)
    ELSE h

\* a release that cancels the load and keeps its id on record
ReleaseEntryWidgetKeepingRequest(h, GlobalIndex) ==
    Then(IF GlobalIndex \in DOMAIN h.GlobalIndexToRequestId
         THEN Log(CancelRequest(h, h.GlobalIndexToRequestId[GlobalIndex]),
                  "Cancel", GlobalIndex, NoWidget)
         ELSE h, LAMBDA h1 :
        IF ~Contains(h1, GlobalIndex) THEN h1
        ELSE Log([h1 EXCEPT !.GlobalIndexToSlotData = RemoveKey(@, GlobalIndex)],
                 "SlotRemoved", GlobalIndex, SlotOf(h1, GlobalIndex).Widget))

\* UBaseStrategyWidget::ReleaseEntryWidget
ReleaseEntryWidget(h, GlobalIndex) ==
    Then(IF GlobalIndex \in DOMAIN h.GlobalIndexToRequestId
         THEN Log([CancelRequest(h, h.GlobalIndexToRequestId[GlobalIndex])
                      EXCEPT !.GlobalIndexToRequestId = RemoveKey(@, GlobalIndex)],
                  "Cancel", GlobalIndex, NoWidget)
         ELSE h, LAMBDA h1 :
        IF ~Contains(h1, GlobalIndex) THEN h1
        ELSE
        LET SlotData == SlotOf(h1, GlobalIndex)
            Widget == SlotData.Widget
        IN
        Then(IF ~IsValid(SlotData) THEN h1
             ELSE
             Then(IF SlotData.bIsPlaceholder
                  THEN SetSlot(h1, GlobalIndex,
                           [SlotData EXCEPT !.Widget = NoWidget,
                                            !.CachedSlateWidget = NoWidget])
                  ELSE Log(ReleaseWidgetToPool(h1, Widget), "Release", GlobalIndex, Widget),
                  LAMBDA h2 :
                 Log(NotifyStrategyEntryStateChange(h2, GlobalIndex, Widget,
                                                    SlotData.TagState, {Pooled}),
                     "TagsPooled", GlobalIndex, Widget)), LAMBDA h4 :
            Log([h4 EXCEPT !.GlobalIndexToSlotData = RemoveKey(@, GlobalIndex)],
                "SlotRemoved", GlobalIndex, Widget)))

RECURSIVE ReleaseUndesiredLoop(_, _, _)
ReleaseUndesiredLoop(h, CurrentIndices, DesiredIndices) ==
    IF CurrentIndices = {} THEN h
    ELSE LET OldIndex == MinOf(CurrentIndices)
         IN  ReleaseUndesiredLoop(
                 IF OldIndex \notin DesiredIndices THEN ReleaseEntryWidget(h, OldIndex) ELSE h,
                 CurrentIndices \ {OldIndex}, DesiredIndices)

\* a reconciliation that releases nothing
ReleaseNoWidgets(h, DesiredIndices) == h

\* a reconciliation that releases every slot, desired or not
ReleaseAllWidgets(h, DesiredIndices) ==
    ReleaseUndesiredLoop(h, DOMAIN h.GlobalIndexToSlotData, {})

\* UBaseStrategyWidget::ReleaseUndesiredWidgets
ReleaseUndesiredWidgets(h, DesiredIndices) ==
    ReleaseUndesiredLoop(h, DOMAIN h.GlobalIndexToSlotData, DesiredIndices)

\* UBaseStrategyWidget::UpdateEntryWidget
UpdateEntryWidget(h, InGlobalIndex) ==
    Then(AcquireEntryWidget(h, InGlobalIndex), LAMBDA h1 :
        IF h1.ret # NoWidget /\ Implements(h1.ret)
        THEN Log(h1, "ItemAssigned", InGlobalIndex, h1.ret)
        ELSE h1)

\* UBaseStrategyWidget::TryHandlePooledEntryStateTransition
TryHandlePooledEntryStateTransition(h, GlobalIndex) ==
    LET DesiredTag == IF ShouldBeVisible(h, GlobalIndex) THEN Active ELSE Deactivated
    IN
    Then(IF ~Contains(h, GlobalIndex) \/ ~IsValid(SlotOf(h, GlobalIndex))
         THEN AcquireEntryWidget(h, GlobalIndex) ELSE h, LAMBDA h1 :
        IF ~Contains(h1, GlobalIndex) THEN h1
        ELSE IF DesiredTag \in SlotOf(h1, GlobalIndex).TagState THEN h1
        ELSE UpdateEntryLifecycleTagState(h1, GlobalIndex, DesiredTag))

\* the body of the loop of RebuildSlateForIndices, for one index
RebuildSlateForIndex(h, GlobalIndex, bForceUpdateWidget) ==
    Then(IF bForceUpdateWidget THEN UpdateEntryWidget(h, GlobalIndex) ELSE h, LAMBDA h1 :
    Then(IF Contains(h1, GlobalIndex) THEN h1
         ELSE AcquireEntryWidget(h1, GlobalIndex), LAMBDA h2 :
        LET ItemLocalPos == GetItemPosition(h1, GlobalIndex)
        IN  IF ~Contains(h2, GlobalIndex) THEN h2
            ELSE Log(SetSlot(h2, GlobalIndex,
                         [SlotOf(h2, GlobalIndex) EXCEPT !.Position = ItemLocalPos,
                                                         !.Depth = 0]),
                     "PositionStored", GlobalIndex, SlotOf(h2, GlobalIndex).Widget)))

\* UBaseStrategyWidget::RebuildSlateForIndices
RECURSIVE RebuildSlateForIndices(_, _, _)
RebuildSlateForIndices(h, InIndices, bForceUpdateWidget) ==
    IF InIndices = {} THEN h
    ELSE RebuildSlateForIndices(
             RebuildSlateForIndex(h, MinOf(InIndices), bForceUpdateWidget),
             InIndices \ {MinOf(InIndices)}, bForceUpdateWidget)

\* step (2) of UpdateWidgets: the loop over the desired indices
RECURSIVE TransitionLoop(_, _)
TransitionLoop(h, Indices) ==
    IF Indices = {} THEN h
    ELSE LET Idx == MinOf(Indices)
         IN  TransitionLoop(
                 UpdateEntryWidget(TryHandlePooledEntryStateTransition(h, Idx), Idx),
                 Indices \ {Idx})

\* a reconciliation that acquires first and releases last
UpdateWidgetsReleaseLast(h) ==
    IF GetItemCount(h) = 0 THEN h
    ELSE IF h.LayoutStrategy = "None" THEN h
    ELSE
    Then(ComputeDesiredGlobalIndices(h), LAMBDA h1 :
    Then(DesiredOf(h1), LAMBDA NewDesiredIndices :
        RebuildSlateForIndices(
            ReleaseUndesiredWidgets(TransitionLoop(h1, NewDesiredIndices),
                                    NewDesiredIndices),
            NewDesiredIndices, TRUE)))

\* UBaseStrategyWidget::UpdateWidgets
UpdateWidgets(h) ==
    IF GetItemCount(h) = 0 THEN h
    ELSE IF h.LayoutStrategy = "None" THEN h
    ELSE
    Then(ComputeDesiredGlobalIndices(h), LAMBDA h1 :
    Then(DesiredOf(h1), LAMBDA NewDesiredIndices :
        RebuildSlateForIndices(
            TransitionLoop(ReleaseUndesiredWidgets(h1, NewDesiredIndices),
                           NewDesiredIndices),
            NewDesiredIndices, TRUE)))

\* UBaseStrategyWidget::ReplacePlaceholderWithActualWidget
ReplacePlaceholderWithActualWidget(h, GlobalIndex, ActualWidget) ==
    IF ~Contains(h, GlobalIndex) THEN h
    ELSE IF ~SlotOf(h, GlobalIndex).bIsPlaceholder THEN h
    ELSE
    LET DataIndex == GlobalIndexToDataIndex(h, GlobalIndex)
        Item == ItemAt(h, DataIndex)
    IN
    Then(SetSlot(h, GlobalIndex,
             [SlotOf(h, GlobalIndex) EXCEPT !.Widget = ActualWidget,
                                            !.CachedSlateWidget = ActualWidget,
                                            !.bIsPlaceholder = FALSE]), LAMBDA h1 :
    Then(IF Implements(ActualWidget) /\ Item # NoItem
         THEN Log(h1, "ItemAssigned", GlobalIndex, ActualWidget) ELSE h1, LAMBDA h2 :
    Then(IF Implements(ActualWidget)
         THEN Log(h2, "TagsChanged", GlobalIndex, ActualWidget) ELSE h2, LAMBDA h3 :
    Then(IF DataIndex \in h.SelectedDataIndices
         THEN UpdateEntryInteractionTagState(h3, GlobalIndex, Selected, TRUE)
         ELSE h3, LAMBDA h4 :
    Then(IF DataIndex = h.FocusedDataIndex
         THEN UpdateEntryInteractionTagState(h4, GlobalIndex, Focused, TRUE)
         ELSE h4, LAMBDA h5 :
    Then(ComputeDesiredGlobalIndices(
             [h5 EXCEPT !.GlobalIndexToRequestId = RemoveKey(@, GlobalIndex)]), LAMBDA h7 :
        RebuildSlateForIndices(h7, DesiredOf(h7), FALSE)))))))

\* the global index a request id was recorded for, as the callbacks look it up
IndicesOfRequest(h, RequestId) ==
    {k \in DOMAIN h.GlobalIndexToRequestId : h.GlobalIndexToRequestId[k] = RequestId}

\* UBaseStrategyWidget::OnAsyncWidgetLoaded_Implementation
OnAsyncWidgetLoaded(h, RequestId, LoadedWidget) ==
    IF LoadedWidget = NoWidget THEN h
    ELSE IF IndicesOfRequest(h, RequestId) = {} THEN h
    ELSE ReplacePlaceholderWithActualWidget(h, MinOf(IndicesOfRequest(h, RequestId)),
                                            LoadedWidget)

\* UBaseStrategyWidget::OnAsyncWidgetLoadFailed_Implementation
OnAsyncWidgetLoadFailed(h, RequestId) ==
    IF IndicesOfRequest(h, RequestId) = {} THEN h
    ELSE [h EXCEPT !.GlobalIndexToRequestId =
                       RemoveKey(@, MinOf(IndicesOfRequest(h, RequestId)))]

\* UBaseStrategyWidget::OnAsyncWidgetLoadCancelled_Implementation
OnAsyncWidgetLoadCancelled(h, RequestId) ==
    IF IndicesOfRequest(h, RequestId) = {} THEN h
    ELSE [h EXCEPT !.GlobalIndexToRequestId =
                       RemoveKey(@, MinOf(IndicesOfRequest(h, RequestId)))]

\* the two loops of UpdateFocusedIndex and the loop of SetSelectedGlobalIndex:
\* every slot with a widget whose index maps to DataIndex gets the tag updated
RECURSIVE InteractionLoop(_, _, _, _, _)
InteractionLoop(h, Keys, DataIndex, InteractionTag, bEnable) ==
    IF Keys = {} THEN h
    ELSE LET MappedGlobalIndex == MinOf(Keys)
             hit == /\ SlotOf(h, MappedGlobalIndex).Widget # NoWidget
                    /\ GlobalIndexToDataIndex(h, MappedGlobalIndex) = DataIndex
         IN  InteractionLoop(
                 IF hit THEN UpdateEntryInteractionTagState(h, MappedGlobalIndex,
                                                            InteractionTag, bEnable)
                 ELSE h,
                 Keys \ {MappedGlobalIndex}, DataIndex, InteractionTag, bEnable)

\* UBaseStrategyWidget::GetLayoutStrategyChecked: check(StrategyType) is fatal
GetLayoutStrategyChecked(h) == [h EXCEPT !.crashed = @ \/ h.LayoutStrategy = "None"]

\* UBaseStrategyWidget::UpdateFocusedIndex; without a strategy no slot exists,
\* so the first checked access is the one that maps the new index
UpdateFocusedIndex(h, InNewGlobalFocusIndex) ==
    LET OldDataIndex == h.FocusedDataIndex
    IN  IF h.FocusedGlobalIndex = InNewGlobalFocusIndex THEN h
        ELSE IF h.LayoutStrategy = "None"
        THEN GetLayoutStrategyChecked(
                 [h EXCEPT !.FocusedGlobalIndex = InNewGlobalFocusIndex])
        ELSE
        Then(IF OldDataIndex # INDEX_NONE
             THEN InteractionLoop(h, DOMAIN h.GlobalIndexToSlotData, OldDataIndex,
                                  Focused, FALSE)
             ELSE h, LAMBDA h1 :
        Then([h1 EXCEPT !.FocusedGlobalIndex = InNewGlobalFocusIndex,
                        !.FocusedDataIndex =
                            GlobalIndexToDataIndex(h, InNewGlobalFocusIndex)], LAMBDA h2 :
            IF h2.FocusedDataIndex # INDEX_NONE
            THEN InteractionLoop(h2, DOMAIN h2.GlobalIndexToSlotData, h2.FocusedDataIndex,
                                 Focused, TRUE)
            ELSE h2))

\* a selection that announces the item every time it is asked to select it
SetSelectedGlobalIndexAnnouncingAgain(h, InGlobalIndex, bShouldBeSelected) ==
    LET DataIndex == GlobalIndexToDataIndex(h, InGlobalIndex)
    IN  IF DataIndex = INDEX_NONE THEN h
        ELSE
        Then(InteractionLoop(h, DOMAIN h.GlobalIndexToSlotData, DataIndex,
                             Selected, bShouldBeSelected), LAMBDA h1 :
            IF bShouldBeSelected
            THEN Log([h1 EXCEPT !.SelectedDataIndices = @ \cup {DataIndex}],
                     "OnItemSelected", DataIndex, NoWidget)
            ELSE [h1 EXCEPT !.SelectedDataIndices = @ \ {DataIndex}])

\* UBaseStrategyWidget::SetSelectedGlobalIndex; the OnItemSelected broadcast
\* is logged with the data index it carries
SetSelectedGlobalIndex(h, InGlobalIndex, bShouldBeSelected) ==
    LET DataIndex == GlobalIndexToDataIndex(h, InGlobalIndex)
        bAlreadySelected == DataIndex \in h.SelectedDataIndices
    IN  IF h.LayoutStrategy = "None" THEN GetLayoutStrategyChecked(h)
        ELSE IF DataIndex = INDEX_NONE THEN h
        ELSE
        Then(InteractionLoop(h, DOMAIN h.GlobalIndexToSlotData, DataIndex,
                             Selected, bShouldBeSelected), LAMBDA h1 :
            IF bShouldBeSelected /\ ~bAlreadySelected
            THEN Log([h1 EXCEPT !.SelectedDataIndices = @ \cup {DataIndex}],
                     "OnItemSelected", DataIndex, NoWidget)
            ELSE IF ~bShouldBeSelected /\ bAlreadySelected
            THEN [h1 EXCEPT !.SelectedDataIndices = @ \ {DataIndex}]
            ELSE h1)

\* UBaseStrategyWidget::ToggleFocusedIndexSelection
ToggleFocusedIndexSelection(h) ==
    SetSelectedGlobalIndex(h, h.FocusedGlobalIndex,
                           h.FocusedDataIndex \notin h.SelectedDataIndices)

\* UBaseStrategyWidget::Reset, the loop that cancels the pending loads
RECURSIVE CancelPendingLoop(_, _)
CancelPendingLoop(h, Keys) ==
    IF Keys = {} THEN h
    ELSE LET GlobalIndex == MinOf(Keys)
             RequestId == h.GlobalIndexToRequestId[GlobalIndex]
         IN  CancelPendingLoop(
                 IF RequestId # INDEX_NONE
                 THEN Log(CancelRequest(h, RequestId), "Cancel", GlobalIndex, NoWidget)
                 ELSE h,
                 Keys \ {GlobalIndex})

\* a reset that keeps the selection
ResetKeepingSelection(h) ==
    [CancelPendingLoop(h, DOMAIN h.GlobalIndexToRequestId)
        EXCEPT !.PoolActive = {},
               !.GlobalIndexToRequestId = EmptyMap,
               !.FocusedGlobalIndex = 0,
               !.FocusedDataIndex = INDEX_NONE,
               !.GlobalIndexToSlotData = EmptyMap,
               !.Items = << >>]

\* UBaseStrategyWidget::Reset
Reset(h) ==
    [CancelPendingLoop(h, DOMAIN h.GlobalIndexToRequestId)
        EXCEPT !.PoolActive = {},
               !.GlobalIndexToRequestId = EmptyMap,
               !.SelectedDataIndices = {},
               !.FocusedGlobalIndex = 0,
               !.FocusedDataIndex = INDEX_NONE,
               !.GlobalIndexToSlotData = EmptyMap,
               !.Items = << >>]

\* UBaseStrategyWidget::SetItems_Internal_Implementation
BaseSetItems_Internal(h, InItems) ==
    LET h1 == [h EXCEPT !.Items = InItems]
    IN  IF GetItemCount(h1) <= 0 THEN h1
        ELSE UpdateWidgets(InitializeStrategy(h1))

----------------------------------------------------------------------------
\* FRadialScrollAnimationData as declared; times are in ticks, the DeltaAngle
\* member is written and never read
NoAnimation ==
    [bIsAnimating |-> FALSE, Duration |-> 0, ElapsedTime |-> 0,
     StartAngle |-> 0, EndAngle |-> 0]

\* the state after construction, but for the configuration and the
\* strategy's editable properties
ConstructedWidget ==
    /\ Items = << >>
    /\ GlobalIndexToSlotData = EmptyMap
    /\ GlobalIndexToRequestId = EmptyMap
    /\ SelectedDataIndices = {}
    /\ FocusedGlobalIndex = INDEX_NONE
    /\ FocusedDataIndex = INDEX_NONE
    /\ CurrentPointerAngle = 0
    /\ RuntimeScrollingAnimState = NoAnimation
    /\ NumItems = 0
    /\ GapPaddingSegments = 0
    /\ AngularSpacing = 0
    /\ LatestPointerAngle = 0
    /\ VisibleStartIndex = INDEX_NONE
    /\ VisibleEndIndex = INDEX_NONE
    /\ PoolActive = {}
    /\ LoaderPending = {}
    /\ LoaderCancelled = {}
    /\ NextRequestId = 1
    /\ trace = << >>
    /\ lastOp = "Init"
    /\ repeatCall = FALSE
    /\ crashed = FALSE
    /\ callArg = 0
    /\ callResult = 0

\* the state after construction, but for the configuration
Constructed ==
    /\ ConstructedWidget
    /\ RadialSegmentCount = 3
    /\ MaxVisibleEntries = 1
    /\ NumDeactivatedEntries = 1

\* a radial widget with a strategy, under every loader configuration
Init ==
    /\ Constructed
    /\ LayoutStrategy \in {"Spiral", "Wheel"}
    /\ DefaultEntryWidgetClass \in BOOLEAN
    /\ bShowLoadingPlaceholders \in BOOLEAN
    /\ EntryClassLoaded \in BOOLEAN
    \* without an entry class the loader is never reached
    /\ ~DefaultEntryWidgetClass => (~bShowLoadingPlaceholders /\ ~EntryClassLoaded)

\* a radial widget with or without a strategy, its entry class resident
InitHost ==
    /\ Constructed
    /\ LayoutStrategy \in {"None", "Spiral", "Wheel"}
    /\ DefaultEntryWidgetClass = TRUE
    /\ bShowLoadingPlaceholders = FALSE
    /\ EntryClassLoaded = TRUE

\* the program state after a call op(arg) that left r behind and returned res
ApplyCall(r, op, arg, res) ==
    /\ ~r.overflow
    /\ LayoutStrategy' = r.LayoutStrategy
    /\ DefaultEntryWidgetClass' = r.DefaultEntryWidgetClass
    /\ bShowLoadingPlaceholders' = r.bShowLoadingPlaceholders
    /\ Items' = r.Items
    /\ GlobalIndexToSlotData' = r.GlobalIndexToSlotData
    /\ GlobalIndexToRequestId' = r.GlobalIndexToRequestId
    /\ SelectedDataIndices' = r.SelectedDataIndices
    /\ FocusedGlobalIndex' = r.FocusedGlobalIndex
    /\ FocusedDataIndex' = r.FocusedDataIndex
    /\ CurrentPointerAngle' = r.CurrentPointerAngle
    /\ RuntimeScrollingAnimState' = r.RuntimeScrollingAnimState
    /\ NumItems' = r.NumItems
    /\ RadialSegmentCount' = r.RadialSegmentCount
    /\ MaxVisibleEntries' = r.MaxVisibleEntries
    /\ NumDeactivatedEntries' = r.NumDeactivatedEntries
    /\ GapPaddingSegments' = r.GapPaddingSegments
    /\ AngularSpacing' = r.AngularSpacing
    /\ LatestPointerAngle' = r.LatestPointerAngle
    /\ VisibleStartIndex' = r.VisibleStartIndex
    /\ VisibleEndIndex' = r.VisibleEndIndex
    /\ PoolActive' = r.PoolActive
    /\ LoaderPending' = r.LoaderPending
    /\ LoaderCancelled' = r.LoaderCancelled
    /\ EntryClassLoaded' = r.EntryClassLoaded
    /\ NextRequestId' = r.NextRequestId
    /\ trace' = r.trace
    /\ lastOp' = op
    /\ repeatCall' = (op = "UpdateWidgets" /\ lastOp \in {"UpdateWidgets", "NativeTick"})
    /\ crashed' = r.crashed
    /\ callArg' = arg
    /\ callResult' = res

\* the program state after a handler that returned r
Apply(r, op) == ApplyCall(r, op, callArg, callResult)

\* URadialStrategyWidget::SetCurrentAngle
SetCurrentAngle(h, InNewAngle) ==
    IF h.LayoutStrategy = "None"
    THEN GetLayoutStrategyChecked([h EXCEPT !.CurrentPointerAngle = InNewAngle])
    ELSE SetPointerAngle([h EXCEPT !.CurrentPointerAngle = InNewAngle], InNewAngle)

\* URadialStrategyWidget::ApplyManualRotation
ApplyManualRotation(h, DeltaDegrees) ==
    IF DeltaDegrees # 0 THEN SetCurrentAngle(h, h.CurrentPointerAngle + DeltaDegrees)
    ELSE h

\* input handlers that leave a running animation running
HandleStickInputKeepingAnimation(h, RotationDeltaDegrees) ==
    ApplyManualRotation(h, RotationDeltaDegrees)

\* URadialStrategyWidget::HandleStickInput for a stick off its centre;
\* RotationDeltaDegrees is what the handler computes from the stick, the
\* sensitivity and the frame time
HandleStickInput(h, RotationDeltaDegrees) ==
    ApplyManualRotation(
        [h EXCEPT !.RuntimeScrollingAnimState.bIsAnimating = FALSE],
        RotationDeltaDegrees)

\* URadialStrategyWidget::HandleMouseInput for a mouse off the centre;
\* DeltaAngle is the turn from the wrapped pointer angle to the mouse
HandleMouseInput(h, DeltaAngle) ==
    SetCurrentAngle(
        [h EXCEPT !.RuntimeScrollingAnimState.bIsAnimating = FALSE],
        h.CurrentPointerAngle + DeltaAngle)

\* URadialStrategyWidget::BeginAngleAnimation
BeginAngleAnimation(h, InTargetAngle, Duration) ==
    IF Duration <= 0
    THEN SetCurrentAngle([h EXCEPT !.RuntimeScrollingAnimState.bIsAnimating = FALSE],
                         InTargetAngle)
    ELSE [h EXCEPT !.RuntimeScrollingAnimState =
             [bIsAnimating |-> TRUE, Duration |-> Duration, ElapsedTime |-> 0,
              StartAngle |-> h.CurrentPointerAngle, EndAngle |-> InTargetAngle]]

\* FMath::Lerp(A, B, Elapsed / Duration)
Lerp(A, B, Elapsed, Duration) == A + (((B - A) * Elapsed) \div Duration)

\* URadialStrategyWidget::NativeTick, the animation block: one tick of time
AdvanceAnimation(h) ==
    LET anim == h.RuntimeScrollingAnimState
        Elapsed == anim.ElapsedTime + 1
        bFinished == anim.Duration <= 0 \/ Elapsed >= anim.Duration
        AnimAngle == IF bFinished THEN anim.EndAngle
                     ELSE Lerp(anim.StartAngle, anim.EndAngle, Elapsed, anim.Duration)
    IN  IF ~anim.bIsAnimating THEN h
        ELSE SetCurrentAngle(
                 [h EXCEPT !.RuntimeScrollingAnimState.ElapsedTime = Elapsed,
                           !.RuntimeScrollingAnimState.bIsAnimating = ~bFinished],
                 AnimAngle)

\* FMath::Lerp(A, B, Alpha) = A + Alpha * (B - A) in float32, the angles in
\* units of 2^-17 degree, Alpha = Elapsed / Duration for a Duration that is a
\* power of two: the difference, the product and the sum are each rounded
LerpFloat(A, B, Elapsed, Duration) ==
    RoundToFloat(A + RoundToFloat((RoundToFloat(B - A) * Elapsed) \div Duration))

\* URadialStrategyWidget::BeginAngleAnimation in float32: the animation
\* record with the pointer angle as Angle
BeginAngleAnimationFloat(anim, InTargetAngle, Duration) ==
    IF Duration <= 0
    THEN [anim EXCEPT !.bIsAnimating = FALSE, !.Angle = InTargetAngle]
    ELSE [bIsAnimating |-> TRUE, Duration |-> Duration, ElapsedTime |-> 0,
          StartAngle |-> anim.Angle, EndAngle |-> InTargetAngle, Angle |-> anim.Angle]

\* URadialStrategyWidget::NativeTick in float32, the animation block for one
\* tick of time
AdvanceAnimationFloat(anim) ==
    LET Elapsed == anim.ElapsedTime + 1
        bFinished == anim.Duration <= 0 \/ Elapsed >= anim.Duration
        Alpha == IF bFinished THEN anim.Duration ELSE Elapsed
    IN  IF ~anim.bIsAnimating THEN anim
        ELSE [anim EXCEPT !.ElapsedTime = Elapsed,
                          !.bIsAnimating = ~bFinished,
                          !.Angle = LerpFloat(anim.StartAngle, anim.EndAngle,
                                              Alpha, Max(anim.Duration, 1))]

\* URadialStrategyWidget::ResetInput
ResetInput(h) ==
    UpdateFocusedIndex(
        SetCurrentAngle([h EXCEPT !.RuntimeScrollingAnimState.bIsAnimating = FALSE], 0),
        INDEX_NONE)

\* URadialStrategyWidget::SetItems_Internal_Implementation
SetItems_Internal(h, InItems) == ResetInput(BaseSetItems_Internal(h, InItems))

\* UBaseStrategyWidget::SetItems
SetItems(h, InItems) ==
    IF h.LayoutStrategy = "None" THEN h ELSE SetItems_Internal(h, InItems)

\* URadialStrategyWidget::NativeTick up to the pointer angle it hands to the
\* strategy
TickPointer(h) ==
    Then(AdvanceAnimation(h), LAMBDA h1 : SetPointerAngle(h1, h1.CurrentPointerAngle))

\* URadialStrategyWidget::NativeTick; the focused index is the one
\* FindFocusedGlobalIndex produced for the pointer of this tick
NativeTick(h, NewGlobalFocusIndex) ==
    IF h.LayoutStrategy = "None" THEN h
    ELSE UpdateWidgets(UpdateFocusedIndex(TickPointer(h), NewGlobalFocusIndex))

----------------------------------------------------------------------------
(* Actions: one per entry point of the widget *)

\* half a wedge of the three-segment circle, either way
PointerDeltas == {-60, 60}
FocusInputs == {0}
SelectInputs == {1}

DoSetItems ==
    \E arr \in ItemArrays : Apply(SetItems(Host, arr), "SetItems")

DoApplyManualRotation ==
    \E d \in PointerDeltas :
        /\ Abs(CurrentPointerAngle + d) <= MaxPointerHalfSteps * 60
        /\ Apply(ApplyManualRotation(Host, d), "ApplyManualRotation")

DoNativeTick ==
    \E f \in FindFocusedGlobalIndex(TickPointer(Host)) :
        Apply(NativeTick(Host, f), "NativeTick")

DoUpdateWidgets == Apply(UpdateWidgets(Host), "UpdateWidgets")

DoUpdateFocusedIndex ==
    \E g \in FocusInputs : Apply(UpdateFocusedIndex(Host, g), "UpdateFocusedIndex")

DoSetSelectedGlobalIndex ==
    \E g \in SelectInputs, b \in BOOLEAN :
        Apply(SetSelectedGlobalIndex(Host, g, b), "SetSelectedGlobalIndex")

DoToggleFocusedIndexSelection ==
    Apply(ToggleFocusedIndexSelection(Host), "ToggleFocusedIndexSelection")

\* the loader finishes a request: it takes an instance of the now resident
\* class from the pool and reports it to the host
DoOnAsyncWidgetLoaded ==
    \E id \in LoaderPending :
        \E h1 \in {GetOrCreatePooledWidget(
                       [Host EXCEPT !.LoaderPending = @ \ {id},
                                    !.EntryClassLoaded = TRUE], EntryClass)} :
            Apply(OnAsyncWidgetLoaded(h1, id, h1.ret), "OnAsyncWidgetLoaded")

\* the loader gives up on a request, the class not being resident
DoOnAsyncWidgetLoadFailed ==
    \E id \in LoaderPending :
        /\ ~EntryClassLoaded
        /\ Apply(OnAsyncWidgetLoadFailed([Host EXCEPT !.LoaderPending = @ \ {id}], id),
                 "OnAsyncWidgetLoadFailed")

DoReset == Apply(Reset(Host), "Reset")

Next ==
    /\ ~crashed
    /\ \/ DoSetItems
       \/ DoApplyManualRotation
       \/ DoNativeTick
       \/ DoUpdateWidgets
       \/ DoOnAsyncWidgetLoaded
       \/ DoOnAsyncWidgetLoadFailed

\* the reconciliation, with the loader completing or failing requests
Spec == Init /\ [][Next]_vars

NextHost ==
    /\ ~crashed
    /\ \/ DoSetItems
       \/ DoApplyManualRotation
       \/ DoNativeTick
       \/ DoUpdateWidgets
       \/ DoUpdateFocusedIndex
       \/ DoSetSelectedGlobalIndex
       \/ DoToggleFocusedIndexSelection
       \/ DoReset

\* the host's public operations, with or without a strategy
SpecHost == InitHost /\ [][NextHost]_vars

----------------------------------------------------------------------------
(* The strategy's functions, called directly *)

\* a strategy whose entry class is resident, as constructed
InitStrategy ==
    /\ Constructed
    /\ LayoutStrategy \in {"Spiral", "Wheel"}
    /\ DefaultEntryWidgetClass = TRUE
    /\ bShowLoadingPlaceholders = FALSE
    /\ EntryClassLoaded = TRUE

\* the float arithmetic of the source is exact on the strategy's angles
ExactAngles(h) ==
    /\ h.AngularSpacing * h.RadialSegmentCount = FullTurn
    /\ h.AngularSpacing % 2 = 0

\* the editable properties are set, the strategy is initialized for n items,
\* the pointer reset and the window computed; the call returns the gap
\* padding.  Every strategy field is set here, so a second initialization
\* would reach no state the first one does not.
DoInitializeStrategy ==
    /\ lastOp = "Init"
    /\ \E s \in 1..MaxSegments, m \in 1..MaxWindow, d \in 0..MaxPad, n \in 0..MaxItems :
       \E h1 \in {InitializeStrategy([Host EXCEPT !.RadialSegmentCount = s,
                                                  !.MaxVisibleEntries = m,
                                                  !.NumDeactivatedEntries = d,
                                                  !.Items = [i \in 1..n |-> i]])} :
           ApplyCall(ComputeDesiredGlobalIndices(SetPointerAngle(h1, 0)),
                     "InitializeStrategy", n, h1.GapPaddingSegments)

DoGlobalIndexToDataIndex ==
    /\ lastOp # "Init"
    /\ \E g \in -MaxGlobalIndex .. MaxGlobalIndex :
           ApplyCall(Host, "GlobalIndexToDataIndex", g, GlobalIndexToDataIndex(Host, g))

\* half a wedge or one degree, either way
PointerSteps(h) == {h.AngularSpacing \div 2, -(h.AngularSpacing \div 2), 1, -1}

\* wedge centres, wedge boundaries and the angles a degree beside them
OnPointerGrid(h, angle) ==
    /\ Abs(angle) <= MaxPointerTurns * FullTurn + 1
    /\ (angle % (h.AngularSpacing \div 2)) \in {0, 1, (h.AngularSpacing \div 2) - 1}

\* the pointer moves and the desired indices are computed for it
DoComputeDesiredGlobalIndices ==
    /\ ExactAngles(Host)
    /\ \E delta \in PointerSteps(Host) :
       \E h1 \in {SetPointerAngle(Host, LatestPointerAngle + delta)} :
           /\ OnPointerGrid(Host, LatestPointerAngle + delta)
           /\ \E h2 \in {ComputeDesiredGlobalIndices(h1)} :
                  ApplyCall(h2, "ComputeDesiredGlobalIndices", h1.LatestPointerAngle,
                            DesiredOf(h2))

DoFindFocusedGlobalIndex ==
    /\ ExactAngles(Host)
    /\ \E f \in FindFocusedGlobalIndex(Host) :
           ApplyCall(Host, "FindFocusedGlobalIndex", LatestPointerAngle, f)

DoComputeShortestUnboundAngleForDataIndex ==
    /\ ExactAngles(Host)
    /\ \E d \in 0 .. MaxItems :
           ApplyCall(Host, "ComputeShortestUnboundAngleForDataIndex", d,
                     ComputeShortestUnboundAngleForDataIndex(Host, d))

\* the pointer is put on the shortest angle of an item, the focus read back
\* and the window computed: the result is the data index of the focused
\* global index
DoScrollToItem ==
    /\ ExactAngles(Host)
    /\ \E d \in 0 .. (NumItems - 1) :
       \E h1 \in {SetPointerAngle(Host, ComputeShortestUnboundAngleForDataIndex(Host, d))} :
           /\ Abs(h1.LatestPointerAngle) <= MaxPointerTurns * FullTurn + 1
           /\ \E f \in FindFocusedGlobalIndex(h1) :
                  ApplyCall(ComputeDesiredGlobalIndices(h1), "ScrollToItem", d,
                            GlobalIndexToDataIndex(h1, f))

NextIndices ==
    \/ DoInitializeStrategy
    \/ DoGlobalIndexToDataIndex

\* the strategy's index mapping, for every configuration within the bounds
SpecIndices == InitStrategy /\ [][NextIndices]_vars

NextAngles ==
    \/ DoInitializeStrategy
    \/ DoComputeDesiredGlobalIndices
    \/ DoFindFocusedGlobalIndex
    \/ DoComputeShortestUnboundAngleForDataIndex
    \/ DoScrollToItem

\* the strategy's pointer functions, for every configuration within the bounds
SpecAngles == InitStrategy /\ [][NextAngles]_vars

----------------------------------------------------------------------------
(* The strategy under every configuration, the invalid ones included *)

\* a strategy with its editable properties as the designer left them
InitConfigured ==
    /\ ConstructedWidget
    /\ LayoutStrategy \in {"Spiral", "Wheel"}
    /\ DefaultEntryWidgetClass = TRUE
    /\ bShowLoadingPlaceholders = FALSE
    /\ EntryClassLoaded = TRUE
    /\ RadialSegmentCount \in -MaxBelowZero .. MaxSegments
    /\ MaxVisibleEntries \in -MaxBelowZero .. MaxWindow
    /\ NumDeactivatedEntries = 1

\* the pointer has not been turned yet
PointerAtRest == lastOp \in {"Init", "InitializeStrategy", "ValidateStrategy"}

\* the host initializes the strategy for its n items, as on every SetItems;
\* the call returns nothing, the gap padding is recorded
DoReinitializeStrategy ==
    /\ PointerAtRest
    /\ \E n \in 0 .. MaxItems :
       \E h1 \in {InitializeStrategy([Host EXCEPT !.Items = [i \in 1..n |-> i]])} :
           ApplyCall(h1, "InitializeStrategy", n, h1.GapPaddingSegments)

DoValidateStrategy ==
    /\ PointerAtRest
    /\ ApplyCall(Host, "ValidateStrategy", 0, ValidateStrategy(Host))

\* whole-degree angles within MaxPointerTurns turns either way: the wedge
\* centres, the wedge boundaries and the angles a degree beside them
RawAngles(h) ==
    LET step == IF h.AngularSpacing > 0 THEN h.AngularSpacing \div 2
                ELSE FullTurn \div 8
    IN  {a \in -(MaxPointerTurns * FullTurn + 1) .. (MaxPointerTurns * FullTurn + 1) :
            (a % step) \in {0, 1, step - 1}} \cup {370, -10}

\* URadialStrategyWidget::ScrollToAngle up to its SetFocusedIndex: the
\* pointer is set to the angle and the focused index found
DoScrollToAngle ==
    /\ lastOp = "InitializeStrategy"
    /\ AngularSpacing = 0 \/ ExactAngles(Host)
    /\ \E a \in RawAngles(Host) :
       \E h1 \in {SetPointerAngle(Host, a)} :
       \E f \in FindFocusedGlobalIndex(h1) :
           ApplyCall(h1, "ScrollToAngle", a, f)

\* the window is computed for the pointer as it stands
DoComputeDesiredGlobalIndicesInPlace ==
    /\ lastOp \in {"InitializeStrategy", "ScrollToAngle"}
    /\ \E h1 \in {ComputeDesiredGlobalIndices(Host)} :
           ApplyCall(h1, "ComputeDesiredGlobalIndices", LatestPointerAngle, DesiredOf(h1))

\* float32 angles a few floats around the multiples of an eighth of a turn
SanitizeInputs ==
    {a \in {k * (FullTurn \div 8) * UnitsPerDegree + e :
                k \in -(8 * MaxPointerTurns) .. (8 * MaxPointerTurns),
                e \in {-8, -4, -2, -1, 0, 1, 2, 4, 8}} : IsFloat(a)}

\* UWheelLayoutStrategy::SanitizeAngle on a float32 angle; argument and
\* result in units of 2^-17 degree
DoSanitizeAngle ==
    /\ LayoutStrategy = "Wheel"
    /\ lastOp \in {"Init", "SanitizeAngle"}
    /\ \E a \in SanitizeInputs :
           ApplyCall(Host, "SanitizeAngle", a, WheelSanitizeAngleFloat(a))

NextConfigured ==
    /\ ~crashed
    /\ \/ DoReinitializeStrategy
       \/ DoValidateStrategy
       \/ DoScrollToAngle
       \/ DoComputeDesiredGlobalIndicesInPlace
       \/ DoSanitizeAngle

\* the strategy's functions under every configuration within the bounds
SpecConfigured == InitConfigured /\ [][NextConfigured]_vars

----------------------------------------------------------------------------
(* The radial widget's pointer: stick, mouse, scroll animations and ticks *)

\* a sixth of a turn either way, or a stick pushed along the pointer
RotationInputs == {-60, 0, 60}

AnimationTargets == {-MaxAnimationAngle, 0, MaxAnimationAngle}

DoHandleStickInput ==
    \E d \in RotationInputs :
        /\ Abs(CurrentPointerAngle + d) <= MaxAnimationAngle
        /\ ApplyCall(HandleStickInput(Host, d), "HandleStickInput", d, 0)

DoHandleMouseInput ==
    \E d \in RotationInputs :
        /\ Abs(CurrentPointerAngle + d) <= MaxAnimationAngle
        /\ ApplyCall(HandleMouseInput(Host, d), "HandleMouseInput", d, 0)

\* an animation to a target over a duration, as ScrollToItemAnimated and
\* ScrollToCenterOfFocusedWedgeAnimated start it; the durations are those
\* whose interpolated angles are whole degrees.  The target and the duration
\* are recorded as the call
DoBeginAngleAnimation ==
    \E target \in AnimationTargets, dur \in 0 .. MaxAnimationTicks :
        /\ dur > 0 => (target - CurrentPointerAngle) % dur = 0
        /\ ApplyCall(BeginAngleAnimation(Host, target, dur),
                     "BeginAngleAnimation", target, dur)

\* the items are set once, before the pointer is driven
DoSetItemsFirst == lastOp = "Init" /\ DoSetItems

NextPointer ==
    /\ ~crashed
    /\ \/ DoSetItemsFirst
       \/ DoHandleStickInput
       \/ DoHandleMouseInput
       \/ DoBeginAngleAnimation
       \/ DoNativeTick

\* the radial widget driven by input and animated scrolls
SpecPointer == InitStrategy /\ [][NextPointer]_vars

----------------------------------------------------------------------------
(* The host reset in the middle of its work *)

NextReset ==
    /\ ~crashed
    /\ \/ DoSetItems
       \/ DoNativeTick
       \/ DoSetSelectedGlobalIndex
       \/ DoOnAsyncWidgetLoaded
       \/ DoReset

\* every configuration of the host, requests in flight or not, with Reset
SpecReset == Init /\ [][NextReset]_vars

----------------------------------------------------------------------------
(* Selection by global index, gaps and other turns of the circle included *)

\* global indices of the turn before, the first turn and the turn after
SelectableIndices == -MaxSegments .. 2 * MaxSegments - 1

\* the index and the flag are recorded as the call
DoSelectGlobalIndex ==
    \E g \in SelectableIndices, b \in BOOLEAN :
        ApplyCall(SetSelectedGlobalIndex(Host, g, b), "SetSelectedGlobalIndex", g, b)

NextSelection ==
    /\ ~crashed
    /\ \/ DoSetItems
       \/ DoNativeTick
       \/ DoSelectGlobalIndex

SpecSelection == InitStrategy /\ [][NextSelection]_vars

----------------------------------------------------------------------------
(* Callbacks of the loader for requests the host cancelled in flight *)

\* the load had finished when the cancellation reached the loader
DoLateWidgetLoaded ==
    \E id \in LoaderCancelled :
        \E h1 \in {GetOrCreatePooledWidget(
                       [Host EXCEPT !.LoaderCancelled = @ \ {id},
                                    !.EntryClassLoaded = TRUE], EntryClass)} :
            ApplyCall(OnAsyncWidgetLoaded(h1, id, h1.ret), "LateWidgetLoaded",
                      id, callResult)

\* the load had failed when the cancellation reached the loader
DoLateWidgetLoadFailed ==
    \E id \in LoaderCancelled :
        /\ ~EntryClassLoaded
        /\ ApplyCall(OnAsyncWidgetLoadFailed([Host EXCEPT !.LoaderCancelled = @ \ {id}], id),
                     "LateWidgetLoadFailed", id, callResult)

\* the loader reports the cancellation
DoOnAsyncWidgetLoadCancelled ==
    \E id \in LoaderCancelled :
        ApplyCall(OnAsyncWidgetLoadCancelled([Host EXCEPT !.LoaderCancelled = @ \ {id}], id),
                  "OnAsyncWidgetLoadCancelled", id, callResult)

NextCallbacks ==
    /\ ~crashed
    /\ \/ DoSetItems
       \/ DoApplyManualRotation
       \/ DoNativeTick
       \/ DoOnAsyncWidgetLoaded
       \/ DoReset
       \/ DoLateWidgetLoaded
       \/ DoLateWidgetLoadFailed
       \/ DoOnAsyncWidgetLoadCancelled

\* the host with a loader whose callbacks for cancelled requests still arrive
SpecCallbacks == Init /\ [][NextCallbacks]_vars

\* selection on a widget that is scrolled
NextScrolledSelection ==
    /\ ~crashed
    /\ \/ DoSetItemsFirst
       \/ DoHandleStickInput
       \/ DoNativeTick
       \/ DoSelectGlobalIndex

SpecScrolledSelection == InitStrategy /\ [][NextScrolledSelection]_vars

----------------------------------------------------------------------------
(* A scroll animation run to its end, in float32 *)

\* float32 target angles a float or two around the multiples of an eighth of
\* a turn, within half a turn of zero
AnimationTargetsFloat ==
    {a \in {k * (FullTurn \div 8) * UnitsPerDegree + e :
                k \in -4 .. 4, e \in {-1, 0, 1}} : IsFloat(a)}

\* durations in ticks for which Elapsed / Duration is exact in float32
AnimationDurationsFloat == {d \in 0 .. MaxAnimationTicks : d \in {0, 1, 2, 4, 8}}

\* the pointer is put at a float32 angle and an animation to a target is
\* started; the start, the target and the duration are recorded as the call,
\* the animation record with the pointer angle as its result
DoBeginAngleAnimationFloat ==
    /\ lastOp = "Init"
    /\ \E start \in SanitizeInputs, target \in AnimationTargetsFloat,
          dur \in AnimationDurationsFloat :
           /\ dur > 0 => RoundToFloat(target - start) % dur = 0
           /\ ApplyCall(Host, "BeginAngleAnimationFloat", <<start, target, dur>>,
                  BeginAngleAnimationFloat([bIsAnimating |-> FALSE, Duration |-> 0,
                                            ElapsedTime |-> 0, StartAngle |-> 0,
                                            EndAngle |-> 0, Angle |-> start],
                                           target, dur))

\* a tick of an animation that nothing preempts
DoNativeTickFloat ==
    /\ lastOp \in {"BeginAngleAnimationFloat", "NativeTickFloat"}
    /\ callResult.bIsAnimating
    /\ ApplyCall(Host, "NativeTickFloat", callArg, AdvanceAnimationFloat(callResult))

NextAnimationEnd ==
    \/ DoBeginAngleAnimationFloat
    \/ DoNativeTickFloat

SpecAnimationEnd == InitStrategy /\ [][NextAnimationEnd]_vars

----------------------------------------------------------------------------
(* The radial widget under every valid configuration and item count *)

InitValidConfiguration ==
    /\ ConstructedWidget
    /\ LayoutStrategy \in {"Spiral", "Wheel"}
    /\ DefaultEntryWidgetClass = TRUE
    /\ bShowLoadingPlaceholders = FALSE
    /\ EntryClassLoaded = TRUE
    /\ RadialSegmentCount \in 1 .. MaxSegments
    \* the window fits the widgets there are
    /\ MaxVisibleEntries \in 1 .. Min(MaxWindow, MaxWidgets - 2)
    /\ NumDeactivatedEntries = 1

\* SetItems with n items, once; a wheel shows them all at a time
DoSetItemsOfCount ==
    /\ lastOp = "Init"
    /\ \E n \in 0 .. Min(MaxItems, MaxWidgets) : Apply(SetItems(Host, [i \in 1 .. n |-> i]), "SetItems")

DoResetInputCall == Apply(ResetInput(Host), "ResetInput")

\* a tick, for the segment counts whose angles are exact
DoNativeTickExact == ExactAngles(Host) /\ DoNativeTick

NextValidConfiguration ==
    /\ ~crashed
    /\ \/ DoSetItemsOfCount
       \/ DoHandleStickInput
       \/ DoNativeTickExact
       \/ DoResetInputCall

SpecValidConfiguration == InitValidConfiguration /\ [][NextValidConfiguration]_vars

----------------------------------------------------------------------------
(* Stepping by items, and re-centring on the focused wedge *)

MaxStep == 2

StepDeltas == -MaxStep .. MaxStep

\* the Duration argument, in ticks; World->GetDeltaSeconds() is one tick
StepDurations == {0, 1}

\* URadialStrategyWidget::ScaleDurationByGapItems
ScaleDurationByGapItems(h, Duration) == Duration * (1 + h.GapPaddingSegments)

\* URadialStrategyWidget::StepIndexAnimated, the data index it scrolls to:
\* the int32 remainder, and the last index when the remainder is negative
StepIndexTarget(h, Delta) ==
    LET TargetDataIndex == CMod(h.FocusedDataIndex + Delta, GetItemCount(h))
    IN  IF TargetDataIndex < 0 THEN GetItemCount(h) - 1 ELSE TargetDataIndex

\* URadialStrategyWidget::ScrollToItemAnimated
ScrollToItemAnimated(h, DataIndex, Duration) ==
    IF ~(DataIndex >= 0 /\ DataIndex < Len(h.Items)) THEN h
    ELSE BeginAngleAnimation(h, ComputeShortestUnboundAngleForDataIndex(h, DataIndex),
                             Duration)

\* URadialStrategyWidget::StepIndexAnimated, with a world
StepIndexAnimated(h, Delta, Duration) ==
    IF GetItemCount(h) <= 0 THEN h
    ELSE LET CurrentIndex == h.FocusedDataIndex
             Remainder == CMod(CurrentIndex + Delta, GetItemCount(h))
             bCrossedGap == Remainder < 0 \/ CurrentIndex = GetItemCount(h) - 1
             FinalDuration == IF bCrossedGap THEN ScaleDurationByGapItems(h, 1)
                              ELSE IF Duration <= 0 THEN 2 ELSE Duration
         IN  ScrollToItemAnimated(h, StepIndexTarget(h, Delta), FinalDuration)

\* URadialStrategyWidget::ScrollToCenterOfFocusedWedgeAnimated
ScrollToCenterOfFocusedWedgeAnimated(h, Duration) ==
    IF h.FocusedDataIndex = INDEX_NONE \/ GetItemCount(h) = 0 THEN h
    ELSE BeginAngleAnimation(h, h.FocusedDataIndex * h.AngularSpacing, Duration)

\* URadialStrategyWidget::ScrollToCenterOfFocusedWedge
ScrollToCenterOfFocusedWedge(h) ==
    IF h.FocusedDataIndex = INDEX_NONE \/ GetItemCount(h) = 0 THEN h
    ELSE ScrollToCenterOfFocusedWedgeAnimated(h, 0)

\* a step of Delta items; the animation it starts is one whose interpolated
\* angles are whole degrees and whose target is within the turns explored.
\* The delta is recorded as the call and the data index stepped to as its
\* result
DoStepIndexAnimated ==
    /\ ExactAngles(Host)
    /\ \E Delta \in StepDeltas, Duration \in StepDurations :
       \E h1 \in {StepIndexAnimated(Host, Delta, Duration)} :
           /\ LET anim == h1.RuntimeScrollingAnimState
              IN  anim.bIsAnimating =>
                      /\ (anim.EndAngle - anim.StartAngle) % anim.Duration = 0
                      /\ Abs(anim.EndAngle) <= MaxPointerTurns * FullTurn
           /\ Abs(h1.CurrentPointerAngle) <= MaxPointerTurns * FullTurn
           /\ ApplyCall(h1, "StepIndexAnimated", Delta,
                        IF GetItemCount(Host) <= 0 THEN INDEX_NONE
                        ELSE StepIndexTarget(Host, Delta))

\* the pointer is put back on the centre of the focused wedge; the angle it
\* had before is recorded as the call
DoScrollToCenterOfFocusedWedge ==
    ApplyCall(ScrollToCenterOfFocusedWedge(Host), "ScrollToCenterOfFocusedWedge",
              CurrentPointerAngle, 0)

NextStepping ==
    /\ ~crashed
    /\ \/ DoSetItemsOfCount
       \/ DoStepIndexAnimated
       \/ DoScrollToCenterOfFocusedWedge
       \/ DoNativeTickExact

\* a valid configuration whose window shows one entry
InitStepping == InitValidConfiguration /\ MaxVisibleEntries = 1

SpecStepping == InitStepping /\ [][NextStepping]_vars

----------------------------------------------------------------------------
(* Two widgets of the earlier URadialStrategyWidget, whose StepIndexAnimated
   keeps its debounce flags in function-local statics *)

MaxStepItems == 3

\* durations are counted in quarters of a tick, so that the quarter of a
\* duration is exact
QuartersPerTick == 4

WidgetInstances == {1, 2}

\* static bool bLastCrossDirection = false, bCrossedGapLastTime = false
StepStatics == [bLastCrossDirection |-> FALSE, bCrossedGapLastTime |-> FALSE]

\* a widget with n items and a strategy of so many gap segments, before its
\* first tick; Alone holds the flags as this widget's own steps leave them
NewStepWidget(n, gap) ==
    [NumItems |-> n, GapSegments |-> gap, DataFocusedIndex |-> INDEX_NONE,
     TargetDataIndex |-> INDEX_NONE, Alone |-> StepStatics]

\* URadialStrategyWidget::StepIndexAnimated of the earlier tree, on widget w
\* with the statics st: the index scrolled to, the duration handed to
\* ScrollToItemAnimated and the statics it leaves.  LastGapDuration is
\* assigned FinalDuration before it is subtracted, so a step from no focus
\* takes no time
StepIndexAnimatedWithStatics(w, st, Delta, Duration) ==
    LET Initial == IF Duration <= 0 THEN QuartersPerTick ELSE Duration * QuartersPerTick
        CurrentIndex == w.DataFocusedIndex
        Remainder == CMod(CurrentIndex + Delta, w.NumItems)
        TargetDataIndex == IF Remainder < 0 THEN w.NumItems - 1 ELSE Remainder
        bCurrentlyCrossingGap == CurrentIndex = INDEX_NONE
        bForward == Delta > 0
        bCrossedGap == \/ bForward /\ TargetDataIndex < CurrentIndex
                       \/ ~bForward /\ TargetDataIndex > CurrentIndex
                       \/ bCurrentlyCrossingGap
        bSameDirectionAsBefore == bForward = st.bLastCrossDirection
        Scaled == IF ~bCrossedGap THEN Initial
                  ELSE IF st.bCrossedGapLastTime /\ bSameDirectionAsBefore
                       THEN Initial \div 4
                       ELSE Initial * w.GapSegments
    IN  [TargetDataIndex |-> TargetDataIndex,
         FinalDuration |-> IF bCurrentlyCrossingGap THEN 0 ELSE Scaled,
         Statics |-> IF bCrossedGap
                     THEN [bLastCrossDirection |-> bForward, bCrossedGapLastTime |-> TRUE]
                     ELSE [st EXCEPT !.bCrossedGapLastTime = FALSE]]

\* two widgets are constructed and given the same number of items; the one
\* set of statics is the function's
DoConstructWidgets ==
    /\ lastOp = "Init"
    /\ \E n \in 1 .. MaxStepItems, gap \in 0 .. MaxPad :
           ApplyCall(Host, "ConstructWidgets", <<0, 0, 0>>,
                     [Statics |-> StepStatics,
                      Widgets |-> [i \in WidgetInstances |-> NewStepWidget(n, gap)],
                      FinalDuration |-> 0, AloneDuration |-> 0])

\* a step on widget i: the call runs on the function's statics; beside it
\* the same call runs on the flags widget i's own steps left, and its
\* duration is kept for comparison.  The widget, the delta and the duration
\* asked for are recorded as the call
DoStepIndexAnimatedWithStatics ==
    /\ lastOp \in {"ConstructWidgets", "StepIndexAnimatedWithStatics", "TickWidget"}
    /\ \E i \in WidgetInstances, Delta \in StepDeltas, Duration \in StepDurations :
       LET w == callResult.Widgets[i]
           shared == StepIndexAnimatedWithStatics(w, callResult.Statics, Delta, Duration)
           alone == StepIndexAnimatedWithStatics(w, w.Alone, Delta, Duration)
       IN  ApplyCall(Host, "StepIndexAnimatedWithStatics", <<i, Delta, Duration>>,
                     [callResult EXCEPT
                         !.Statics = shared.Statics,
                         !.Widgets[i].TargetDataIndex = shared.TargetDataIndex,
                         !.Widgets[i].Alone = alone.Statics,
                         !.FinalDuration = shared.FinalDuration,
                         !.AloneDuration = alone.FinalDuration])

\* the scroll of widget i has reached its item and a tick has read the focus
DoTickWidget ==
    /\ lastOp \in {"StepIndexAnimatedWithStatics", "TickWidget"}
    /\ \E i \in WidgetInstances :
           /\ callResult.Widgets[i].TargetDataIndex # INDEX_NONE
           /\ ApplyCall(Host, "TickWidget", <<i, 0, 0>>,
                        [callResult EXCEPT !.Widgets[i].DataFocusedIndex =
                                               callResult.Widgets[i].TargetDataIndex])

NextTwoWidgets ==
    \/ DoConstructWidgets
    \/ DoStepIndexAnimatedWithStatics
    \/ DoTickWidget

SpecTwoWidgets == InitStrategy /\ [][NextTwoWidgets]_vars

----------------------------------------------------------------------------
(* Properties *)

SlotKeys == DOMAIN GlobalIndexToSlotData

TagsOf(g) == GlobalIndexToSlotData[g].TagState

WidgetOf(g) == GlobalIndexToSlotData[g].Widget

ReferencedWidgets == {WidgetOf(g) : g \in SlotKeys} \ {NoWidget}

Idx == 1..Len(trace)

\* the last step ran UpdateWidgets to its end, and nothing ran after it
Reconciled ==
    /\ lastOp \in {"UpdateWidgets", "NativeTick"}
    /\ Len(Items) > 0
    /\ LayoutStrategy # "None"

\* C1: after UpdateWidgets returns, with a strategy and at least one item,
\* the global indices that have an entry slot are exactly the indices
\* ComputeDesiredGlobalIndices returned in that call.
C1_SlotsAreTheDesiredIndices ==
    Reconciled => SlotKeys = DesiredOf(Host)

\* an index was released and another acquired in one reconciliation, every
\* acquisition having produced a widget
C1_Witness ==
    /\ Reconciled
    /\ \E i \in Idx : trace[i].ev = "SlotRemoved"
    /\ \E i \in Idx : trace[i].ev = "PoolAcquire"
    /\ \A g \in SlotKeys : WidgetOf(g)[1] = EntryClass
    /\ SlotKeys = DesiredOf(Host)

\* C2: no widget is referenced by the slots of two global indices, and a
\* widget referenced by a slot is checked out of the pool, never available in
\* it to be handed out again.
C2_OneWidgetPerIndex ==
    /\ \A g1, g2 \in SlotKeys :
           (g1 # g2 /\ WidgetOf(g1) # NoWidget) => WidgetOf(g1) # WidgetOf(g2)
    /\ ReferencedWidgets \subseteq PoolActive

\* a widget released by one index serves another index in the same call,
\* next to a second slot with its own widget
C2_Witness ==
    /\ \E i, j \in Idx :
           /\ i < j
           /\ trace[i].ev = "Release" /\ trace[j].ev = "PoolAcquire"
           /\ trace[i].w = trace[j].w /\ trace[i].g # trace[j].g
           /\ trace[j].g \in SlotKeys /\ WidgetOf(trace[j].g) = trace[j].w
    /\ Cardinality(ReferencedWidgets) >= 2

\* C3: the widgets checked out of the pool are exactly the widgets the slots
\* reference: every widget taken for an index, entry or placeholder, went back
\* when the index was released or the placeholder replaced.
C3_CheckedOutAreReferenced ==
    PoolActive = ReferencedWidgets

\* C4: every entry slot carries exactly one EntryLifecycle tag.
C4_ExactlyOneLifecycleTag ==
    \A g \in SlotKeys : Cardinality(TagsOf(g) \cap EntryLifecycleTags) = 1

\* C5: after UpdateWidgets returns, the lifecycle tag of every entry that has
\* a widget is Active when ShouldBeVisible holds for its index and
\* Deactivated otherwise.
C5_LifecycleFollowsVisibility ==
    Reconciled =>
        \A g \in SlotKeys :
            WidgetOf(g) # NoWidget =>
                TagsOf(g) \cap EntryLifecycleTags =
                    {IF ShouldBeVisible(Host, g) THEN Active ELSE Deactivated}

\* C6: within one UpdateWidgets call every release of an undesired index
\* comes before any acquisition that takes a widget from the pool, and a
\* released widget goes to another index only after the old slot's tags were
\* reset to Pooled and the slot removed.
C6_ReleaseBeforeAcquire ==
    Reconciled =>
        /\ \A i, j \in Idx :
               (trace[i].ev = "PoolAcquire" /\ i < j) =>
                   trace[j].ev \notin {"Release", "Cancel", "TagsPooled", "SlotRemoved"}
        /\ \A i, j \in Idx :
               (/\ i < j
                /\ trace[i].ev = "Release" /\ trace[j].ev = "PoolAcquire"
                /\ trace[i].w = trace[j].w) =>
                   \E k, l \in Idx :
                       /\ i < k /\ k < l /\ l < j
                       /\ trace[k].ev = "TagsPooled" /\ trace[k].g = trace[i].g
                       /\ trace[l].ev = "SlotRemoved" /\ trace[l].g = trace[i].g

\* a reconciliation released a widget, reset and removed its slot, and then
\* handed the same widget to another index
C6_Witness ==
    /\ Reconciled
    /\ \E i, j \in Idx :
           /\ i < j
           /\ trace[i].ev = "Release" /\ trace[j].ev = "PoolAcquire"
           /\ trace[i].w = trace[j].w
           /\ trace[i].g \notin SlotKeys

\* C7: for an entry acquired in this call, the item-assigned callback fires
\* only after the entry's position was computed and stored in this call.
C7_PositionBeforeItemAssigned ==
    Reconciled =>
        \A a, i \in Idx :
            (/\ a < i
             /\ trace[a].ev = "PoolAcquire" /\ trace[i].ev = "ItemAssigned"
             /\ trace[a].g = trace[i].g) =>
                \E j \in Idx :
                    j < i /\ trace[j].ev = "PositionStored" /\ trace[j].g = trace[i].g

\* C8: a second UpdateWidgets right after a reconciliation, nothing having
\* changed in between, acquires nothing from the pool, requests nothing,
\* releases nothing, and leaves the slot map with every slot's tags as it was.
C8_SecondCallChangesNothing ==
    [][repeatCall' =>
          /\ GlobalIndexToSlotData' = GlobalIndexToSlotData
          /\ GlobalIndexToRequestId' = GlobalIndexToRequestId
          /\ PoolActive' = PoolActive
          /\ LoaderPending' = LoaderPending
          /\ NextRequestId' = NextRequestId
          /\ \A i \in 1..Len(trace') :
                 trace'[i].ev \notin {"PoolAcquire", "Request", "Release", "Cancel",
                                      "SlotRemoved"}]_vars

\* the second of two calls in a row, with entries on screen
C8_Witness ==
    /\ repeatCall
    /\ Len(Items) > 0
    /\ \E g \in SlotKeys : IsValid(GlobalIndexToSlotData[g])

\* C9: when no widget class can be resolved, no slot entry exists for the
\* index after the failed acquisition.
C9_NoSlotWithoutClass ==
    ~DefaultEntryWidgetClass => SlotKeys = {}

\* the operations the host needs the strategy for
StrategyOps == {"SetItems", "UpdateWidgets", "UpdateFocusedIndex",
                "SetSelectedGlobalIndex", "ToggleFocusedIndexSelection"}

\* C10: with no layout strategy assigned, none of the operations that need
\* the strategy reaches a fatal assertion.
C10_NoFatalWithoutStrategy ==
    (LayoutStrategy = "None" /\ lastOp \in StrategyOps) => ~crashed

\* the operations that touch entries only through UpdateEntryInteractionTagState
InteractionOps == {"UpdateFocusedIndex", "SetSelectedGlobalIndex",
                   "ToggleFocusedIndexSelection"}

\* C11: the lifecycle transitions a reconciliation makes leave the Focused and
\* Selected tags of every entry it keeps as they were, and the focus and
\* selection operations, which update interaction tags only, leave every
\* entry's lifecycle tags as they were.
C11_TagFamiliesIndependent ==
    [][/\ lastOp' = "UpdateWidgets" =>
              \A g \in DOMAIN GlobalIndexToSlotData \cap DOMAIN GlobalIndexToSlotData' :
                  GlobalIndexToSlotData'[g].TagState \cap EntryInteractionTags =
                      GlobalIndexToSlotData[g].TagState \cap EntryInteractionTags
       /\ lastOp' \in InteractionOps =>
              /\ DOMAIN GlobalIndexToSlotData' = DOMAIN GlobalIndexToSlotData
              /\ \A g \in DOMAIN GlobalIndexToSlotData :
                     GlobalIndexToSlotData'[g].TagState \cap EntryLifecycleTags =
                         GlobalIndexToSlotData[g].TagState \cap EntryLifecycleTags]_vars

\* a reconciliation moved a focused entry out of the visible window: its tags
\* changed in this call, it is Deactivated now and still Focused
C11_Witness ==
    /\ lastOp = "UpdateWidgets"
    /\ \E g \in SlotKeys :
           /\ Focused \in TagsOf(g) /\ Deactivated \in TagsOf(g)
           /\ \E i \in Idx : trace[i].ev = "TagsChanged" /\ trace[i].g = g

\* C12: during a reconciliation an entry that is already allocated, and whose
\* item is the one last assigned to it, gets no item-assigned callback.
C12_ItemAssignedOnlyWhenChanged ==
    [][lastOp' = "UpdateWidgets" =>
          \A i \in 1..Len(trace') :
              trace'[i].ev = "ItemAssigned" =>
                  ~(/\ trace'[i].g \in SlotKeys
                    /\ IsValid(GlobalIndexToSlotData[trace'[i].g])
                    /\ GlobalIndexToSlotData[trace'[i].g].LastAssignedItem =
                           ItemAt(Host, GlobalIndexToDataIndex(Host, trace'[i].g)))]_vars

\* the spiral's virtual cycle: the items and the gap after them
VirtualCycle == NumItems + GapPaddingSegments

\* C13: on a spiral with n > 0 items GlobalIndexToDataIndex(g) is the
\* non-negative remainder w of g by the virtual cycle when w < n and none
\* otherwise, for negative g too, so that g, g + VirtualCycle and
\* g - VirtualCycle map alike; with no items it is none for every g.
C13_SpiralIndexWraps ==
    (lastOp = "GlobalIndexToDataIndex" /\ LayoutStrategy = "Spiral") =>
        IF NumItems <= 0 THEN callResult = INDEX_NONE
        ELSE /\ callResult = (IF callArg % VirtualCycle < NumItems
                              THEN callArg % VirtualCycle ELSE INDEX_NONE)
             /\ SpiralGlobalIndexToDataIndex(Host, callArg + VirtualCycle) = callResult
             /\ SpiralGlobalIndexToDataIndex(Host, callArg - VirtualCycle) = callResult

\* a negative index more than a cycle away from 0, on a spiral with a gap,
\* mapped to an item
C13_Witness ==
    /\ lastOp = "GlobalIndexToDataIndex" /\ LayoutStrategy = "Spiral"
    /\ GapPaddingSegments > 0
    /\ callArg < -VirtualCycle
    /\ callResult > 0

\* C14: after the spiral's UpdateGapSegments(n) with s >= 1 segments and
\* n >= 0 items the gap padding is 0 when s divides n and s - (n mod s)
\* otherwise, so it lies in 0 .. s-1 and n plus the padding is a multiple of s.
C14_SpiralGapFillsLastTurn ==
    (lastOp = "InitializeStrategy" /\ LayoutStrategy = "Spiral") =>
        /\ callArg = NumItems /\ callResult = GapPaddingSegments
        /\ GapPaddingSegments =
               (IF NumItems % RadialSegmentCount = 0 THEN 0
                ELSE RadialSegmentCount - (NumItems % RadialSegmentCount))
        /\ 0 <= GapPaddingSegments /\ GapPaddingSegments < RadialSegmentCount
        /\ (NumItems + GapPaddingSegments) % RadialSegmentCount = 0

\* more items than one turn holds, and a last turn that needs padding
C14_Witness ==
    /\ lastOp = "InitializeStrategy" /\ LayoutStrategy = "Spiral"
    /\ NumItems > RadialSegmentCount
    /\ GapPaddingSegments > 1

\* the spiral computed its window in the last step
SpiralWindowComputed ==
    lastOp = "ComputeDesiredGlobalIndices" /\ LayoutStrategy = "Spiral"

HalfWindow == MaxVisibleEntries \div 2

C16_WindowHoldsMaxVisibleEntries ==
    (SpiralWindowComputed /\ MaxVisibleEntries >= 1) =>
        /\ VisibleEndIndex - VisibleStartIndex + 1 = MaxVisibleEntries
        /\ VisibleStartIndex <= FindFocusedGlobalIndexByAngle(Host)
        /\ FindFocusedGlobalIndexByAngle(Host) <= VisibleEndIndex
        /\ Cardinality(callResult) = MaxVisibleEntries + 2 * NumDeactivatedEntries
        /\ \A g \in callResult :
               /\ g >= VisibleStartIndex - NumDeactivatedEntries
               /\ g <= VisibleEndIndex + NumDeactivatedEntries
        /\ \A g \in (VisibleStartIndex - NumDeactivatedEntries - 1) ..
                     (VisibleEndIndex + NumDeactivatedEntries + 1) :
               ShouldBeVisible(Host, g) <=>
                   /\ g - FindFocusedGlobalIndexByAngle(Host) >= -HalfWindow
                   /\ g - FindFocusedGlobalIndexByAngle(Host) <
                          MaxVisibleEntries - HalfWindow

\* a window of three with a pad entry each side, the pointer on a wedge
\* boundary
C16_Witness ==
    /\ SpiralWindowComputed
    /\ MaxVisibleEntries = 3 /\ NumDeactivatedEntries = 1
    /\ LatestPointerAngle % AngularSpacing = AngularSpacing \div 2
    /\ Cardinality(callResult) = 5

\* C17: on a spiral with positive angular spacing FindFocusedGlobalIndex is
\* floor((pointerAngle + spacing/2) / spacing) for every pointer angle,
\* negative and beyond one turn included, without wrapping: the focused
\* index g is the one with g*spacing - spacing/2 <= pointerAngle <
\* g*spacing + spacing/2, so the angle g*spacing focuses g and the focus
\* changes only at the wedge boundaries.
C17_SpiralFocusIsNearestWedge ==
    (/\ lastOp = "FindFocusedGlobalIndex" /\ LayoutStrategy = "Spiral"
     /\ AngularSpacing > 0) =>
        /\ callArg = LatestPointerAngle
        /\ callResult = (callArg + (AngularSpacing \div 2)) \div AngularSpacing
        /\ callResult * AngularSpacing - (AngularSpacing \div 2) <= callArg
        /\ callArg < callResult * AngularSpacing + (AngularSpacing \div 2)
        /\ (callArg % AngularSpacing = 0) =>
               callResult * AngularSpacing = callArg

\* the pointer on a wedge boundary more than a turn below 0
C17_Witness ==
    /\ lastOp = "FindFocusedGlobalIndex" /\ LayoutStrategy = "Spiral"
    /\ RadialSegmentCount > 1
    /\ callArg < -FullTurn
    /\ callArg % AngularSpacing = AngularSpacing \div 2
    /\ callResult < -RadialSegmentCount

\* C18: on a spiral with n > 0 items ComputeShortestUnboundAngleForDataIndex(d)
\* returns an angle d*spacing + k*cycleStep, k an integer and cycleStep
\* the virtual cycle times the spacing, that is at most cycleStep/2 away
\* from the pointer angle.
C18_ShortestAngleWithinHalfCycle ==
    (/\ lastOp = "ComputeShortestUnboundAngleForDataIndex"
     /\ LayoutStrategy = "Spiral" /\ NumItems > 0) =>
        /\ (callResult - callArg * AngularSpacing) % (VirtualCycle * AngularSpacing) = 0
        /\ 2 * Abs(callResult - LatestPointerAngle) <= VirtualCycle * AngularSpacing

\* the nearest angle is a cycle above the floor candidate and differs from
\* the item's base angle
C18_Witness ==
    /\ lastOp = "ComputeShortestUnboundAngleForDataIndex"
    /\ LayoutStrategy = "Spiral" /\ NumItems > 0
    /\ callResult > LatestPointerAngle
    /\ callResult # callArg * AngularSpacing
    /\ LatestPointerAngle < 0

\* C19: on a spiral, for a valid data index d, turning the pointer to
\* ComputeShortestUnboundAngleForDataIndex(d) makes FindFocusedGlobalIndex
\* return a global index that GlobalIndexToDataIndex maps to d, whatever the
\* pointer angle was before.
C19_ScrollToItemFocusesItem ==
    (lastOp = "ScrollToItem" /\ LayoutStrategy = "Spiral") =>
        /\ 0 <= callArg /\ callArg < NumItems
        /\ callResult = callArg
        /\ SpiralGlobalIndexToDataIndex(Host, FindFocusedGlobalIndexByAngle(Host)) = callArg

\* a scroll that ends below angle 0 on a spiral with a gap
C19_Witness ==
    /\ lastOp = "ScrollToItem" /\ LayoutStrategy = "Spiral"
    /\ GapPaddingSegments > 0
    /\ callArg > 0
    /\ LatestPointerAngle < 0

\* C20: on a wheel with n >= 0 items and s >= 1 segments
\* GlobalIndexToDataIndex(g) is g when 0 <= g < n and none otherwise, for g
\* inside 0 .. s-1 and for g outside it, negative or not.
C20_WheelIndexIsIdentityOrNone ==
    (lastOp = "GlobalIndexToDataIndex" /\ LayoutStrategy = "Wheel") =>
        callResult = (IF 0 <= callArg /\ callArg < NumItems THEN callArg
                      ELSE INDEX_NONE)

\* a negative index on a wheel with items
C20_Witness ==
    /\ lastOp = "GlobalIndexToDataIndex" /\ LayoutStrategy = "Wheel"
    /\ NumItems > 1
    /\ callArg < -1
    /\ callResult = INDEX_NONE

\* C21: on a wheel every segment index 0 .. RadialSegmentCount-1 is in the
\* set ComputeDesiredGlobalIndices returns, no other index is, and
\* ShouldBeVisible holds for each of them, whatever the pointer angle.
C21_WheelShowsEverySegment ==
    (lastOp = "ComputeDesiredGlobalIndices" /\ LayoutStrategy = "Wheel") =>
        /\ callResult = 0 .. (RadialSegmentCount - 1)
        /\ \A g \in 0 .. (RadialSegmentCount - 1) :
               /\ ShouldBeVisible(Host, g)
               /\ ShouldBeVisible(WheelComputeDesiredIndices(Host), g)

\* a wheel with more segments than MaxVisibleEntries, the pointer off 0
C21_Witness ==
    /\ lastOp = "ComputeDesiredGlobalIndices" /\ LayoutStrategy = "Wheel"
    /\ RadialSegmentCount > MaxVisibleEntries
    /\ LatestPointerAngle > FullTurn \div 2
    /\ Cardinality(callResult) = RadialSegmentCount

C23_WheelGrowsToFitItems ==
    [][(/\ lastOp' = "InitializeStrategy" /\ LayoutStrategy = "Wheel"
        /\ RadialSegmentCount >= 1) =>
           /\ NumItems' = callArg'
           /\ RadialSegmentCount' = Max(RadialSegmentCount, NumItems')
           /\ RadialSegmentCount' >= NumItems'
           /\ GapPaddingSegments' = RadialSegmentCount' - NumItems'
           /\ MaxVisibleEntries' <= RadialSegmentCount'
           /\ AngularSpacing' * RadialSegmentCount' = FullTurn]_vars

\* a wheel grown beyond every segment count it can be configured with
C23_Witness ==
    /\ lastOp = "InitializeStrategy" /\ LayoutStrategy = "Wheel"
    /\ NumItems > MaxSegments
    /\ RadialSegmentCount = NumItems
    /\ GapPaddingSegments = 0
    /\ AngularSpacing * RadialSegmentCount = FullTurn

\* C24: the wheel's SanitizeAngle returns a value in [0, 360) for every
\* angle, negative and beyond a turn included, and sanitizing its result
\* again gives the same result.
C24_SanitizeInRangeAndIdempotent ==
    lastOp = "SanitizeAngle" =>
        /\ 0 <= callResult /\ callResult < FullTurn * UnitsPerDegree
        /\ WheelSanitizeAngleFloat(callResult) = callResult

\* C26: a strategy with a non-positive RadialSegmentCount or
\* MaxVisibleEntries is not fatal: ValidateStrategy returns one message for
\* each violated condition, and InitializeStrategy, FindFocusedGlobalIndex
\* and ComputeDesiredGlobalIndices complete without dividing by zero.
C26_InvalidConfigurationIsNotFatal ==
    /\ lastOp = "ValidateStrategy" =>
           Len(callResult) = (IF RadialSegmentCount <= 0 THEN 1 ELSE 0)
                                 + (IF MaxVisibleEntries <= 0 THEN 1 ELSE 0)
    /\ ~crashed
    /\ (lastOp = "ScrollToAngle" /\ RadialSegmentCount <= 0) =>
           callResult \notin UndefinedInt32

\* C25: after every SetItems, one that empties the item array included, the
\* strategy has been initialized again: its NumItems is the host's
\* GetItemCount().
C25_StrategyKnowsItemCount ==
    (lastOp = "SetItems" /\ LayoutStrategy # "None") =>
        NumItems = GetItemCount(Host)

\* C27: a stick or mouse input or a new BeginAngleAnimation that arrives
\* while a scroll animation runs stops it: the pointer goes on from the
\* angle it has, the input's turn added or the new animation started from it,
\* and a tick moves the pointer only inside the animation then running, so
\* never toward a target that was dropped.
C27_InputPreemptsAnimation ==
    [][/\ (/\ RuntimeScrollingAnimState.bIsAnimating
            /\ lastOp' \in {"HandleStickInput", "HandleMouseInput"}) =>
               /\ ~RuntimeScrollingAnimState'.bIsAnimating
               /\ CurrentPointerAngle' = CurrentPointerAngle + callArg'
       /\ (/\ RuntimeScrollingAnimState.bIsAnimating
            /\ lastOp' = "BeginAngleAnimation") =>
               IF callResult' > 0
               THEN /\ CurrentPointerAngle' = CurrentPointerAngle
                    /\ RuntimeScrollingAnimState' =
                           [bIsAnimating |-> TRUE, Duration |-> callResult',
                            ElapsedTime |-> 0, StartAngle |-> CurrentPointerAngle,
                            EndAngle |-> callArg']
               ELSE /\ CurrentPointerAngle' = callArg'
                    /\ ~RuntimeScrollingAnimState'.bIsAnimating
       /\ lastOp' = "NativeTick" =>
               IF RuntimeScrollingAnimState.bIsAnimating
               THEN /\ CurrentPointerAngle' >=
                           Min(RuntimeScrollingAnimState.StartAngle,
                               RuntimeScrollingAnimState.EndAngle)
                    /\ CurrentPointerAngle' <=
                           Max(RuntimeScrollingAnimState.StartAngle,
                               RuntimeScrollingAnimState.EndAngle)
                    /\ Abs(RuntimeScrollingAnimState.EndAngle - CurrentPointerAngle') <=
                           Abs(RuntimeScrollingAnimState.EndAngle - CurrentPointerAngle)
               ELSE CurrentPointerAngle' = CurrentPointerAngle]_vars

\* a stick input has cut an animation between its start and its target
C27_Witness ==
    /\ lastOp = "HandleStickInput" /\ callArg # 0
    /\ ~RuntimeScrollingAnimState.bIsAnimating
    /\ RuntimeScrollingAnimState.ElapsedTime > 0
    /\ RuntimeScrollingAnimState.ElapsedTime < RuntimeScrollingAnimState.Duration
    /\ CurrentPointerAngle =
           Lerp(RuntimeScrollingAnimState.StartAngle, RuntimeScrollingAnimState.EndAngle,
                RuntimeScrollingAnimState.ElapsedTime,
                RuntimeScrollingAnimState.Duration) + callArg
    /\ CurrentPointerAngle # RuntimeScrollingAnimState.StartAngle
    /\ CurrentPointerAngle # RuntimeScrollingAnimState.EndAngle

\* C28: after Reset, whatever the state before it, the host has no entry
\* slots, no pending widget requests (its request map is empty and the loader
\* holds none of the requests the map named), an empty selection, no focused
\* data index and no items.
C28_ResetClearsHost ==
    [][lastOp' = "Reset" =>
          /\ GlobalIndexToSlotData' = EmptyMap
          /\ GlobalIndexToRequestId' = EmptyMap
          /\ \A g \in DOMAIN GlobalIndexToRequestId :
                 GlobalIndexToRequestId[g] \notin LoaderPending'
          /\ SelectedDataIndices' = {}
          /\ FocusedDataIndex' = INDEX_NONE
          /\ Items' = << >>]_vars

\* a reset that had loads to cancel
C28_Witness ==
    /\ lastOp = "Reset"
    /\ \E i \in Idx : trace[i].ev = "Cancel"
    /\ GlobalIndexToSlotData = EmptyMap /\ Items = << >>

\* the OnItemSelected broadcasts of the last handler
Broadcasts(tr) == {i \in 1..Len(tr) : tr[i].ev = "OnItemSelected"}

\* C29: SetSelectedGlobalIndex(g, b) on a gap changes nothing and broadcasts
\* nothing; otherwise the mapped data index d is selected afterwards exactly
\* when b, no other data index changes its membership, and OnItemSelected is
\* broadcast, once and with d, exactly when d went from unselected to selected.
C29_SelectionFollowsTheCall ==
    [][lastOp' = "SetSelectedGlobalIndex" =>
          LET d == GlobalIndexToDataIndex(Host, callArg')
          IN  IF d = INDEX_NONE
              THEN /\ SelectedDataIndices' = SelectedDataIndices
                   /\ GlobalIndexToSlotData' = GlobalIndexToSlotData
                   /\ UNCHANGED <<Items, GlobalIndexToRequestId, FocusedGlobalIndex,
                                  FocusedDataIndex, CurrentPointerAngle, PoolActive>>
                   /\ Broadcasts(trace') = {}
              ELSE /\ (d \in SelectedDataIndices') <=> callResult'
                   /\ SelectedDataIndices' \ {d} = SelectedDataIndices \ {d}
                   /\ IF callResult' /\ d \notin SelectedDataIndices
                      THEN /\ Cardinality(Broadcasts(trace')) = 1
                           /\ \A i \in Broadcasts(trace') : trace'[i].g = d
                      ELSE Broadcasts(trace') = {}]_vars

\* a second data index was selected and announced, the first staying selected
C29_Witness ==
    /\ lastOp = "SetSelectedGlobalIndex" /\ callResult = TRUE
    /\ Cardinality(SelectedDataIndices) = 2
    /\ Broadcasts(trace) # {}
    /\ GlobalIndexToSlotData # EmptyMap

\* the global indices whose load the loader has just reported complete
LoadCompletedFor ==
    {g \in DOMAIN GlobalIndexToRequestId :
        /\ GlobalIndexToRequestId[g] \in LoaderPending
        /\ GlobalIndexToRequestId[g] \notin LoaderPending'}

\* C30: when the load requested for a global index that still has its slot
\* completes, the slot references a widget that is no placeholder and the
\* index has no pending request any more, with loading placeholders on or off.
C30_LoadedWidgetIsInstalled ==
    [][lastOp' = "OnAsyncWidgetLoaded" =>
          \A g \in LoadCompletedFor :
              g \in DOMAIN GlobalIndexToSlotData =>
                  /\ g \in DOMAIN GlobalIndexToSlotData'
                  /\ GlobalIndexToSlotData'[g].Widget # NoWidget
                  /\ ~GlobalIndexToSlotData'[g].bIsPlaceholder
                  /\ g \notin DOMAIN GlobalIndexToRequestId']_vars

LateCallbacks == {"LateWidgetLoaded", "LateWidgetLoadFailed", "OnAsyncWidgetLoadCancelled"}

\* C31: a release of an index with a pending request cancels it and forgets
\* its id, and so does Reset: the host never has a cancelled request on
\* record, and a loaded, failed or cancelled callback for a cancelled request
\* creates no slot and changes no slot, tag, request or selection state.
C31_LateCallbackChangesNothing ==
    [][/\ \A g \in DOMAIN GlobalIndexToRequestId' :
              GlobalIndexToRequestId'[g] \notin LoaderCancelled'
       /\ lastOp' \in LateCallbacks =>
              /\ GlobalIndexToSlotData' = GlobalIndexToSlotData
              /\ GlobalIndexToRequestId' = GlobalIndexToRequestId
              /\ SelectedDataIndices' = SelectedDataIndices
              /\ UNCHANGED <<FocusedGlobalIndex, FocusedDataIndex, Items>>]_vars

\* a load completed for a request that was cancelled, its index since
\* acquired again under a new request
C31_Witness ==
    /\ lastOp = "LateWidgetLoaded"
    /\ \E g \in DOMAIN GlobalIndexToRequestId :
           /\ GlobalIndexToRequestId[g] > callArg
           /\ g \in DOMAIN GlobalIndexToSlotData

\* C32: after a reconciliation an allocated entry carries the Selected tag
\* exactly when its data index is in SelectedDataIndices, entries acquired
\* after the selection was made included.
C32_SelectedTagFollowsSelection ==
    lastOp \in {"UpdateWidgets", "NativeTick"} =>
        \A g \in SlotKeys :
            WidgetOf(g) # NoWidget =>
                (Selected \in TagsOf(g) <=>
                     GlobalIndexToDataIndex(Host, g) \in SelectedDataIndices)

\* C33: after a tick an allocated entry carries the Focused tag exactly when
\* a data index is focused and it is the entry's, entries acquired in that
\* tick and entries kept across a change of the item count included.
C33_FocusedTagFollowsFocus ==
    lastOp = "NativeTick" =>
        \A g \in SlotKeys :
            WidgetOf(g) # NoWidget =>
                (Focused \in TagsOf(g) <=>
                     /\ FocusedDataIndex # INDEX_NONE
                     /\ GlobalIndexToDataIndex(Host, g) = FocusedDataIndex)

\* C34: for a spiral the number of allocated entry slots is at every state,
\* between ticks and after load callbacks too, at most
\* MaxVisibleEntries + 2 * NumDeactivatedEntries.
C34_SpiralSlotsWithinWindow ==
    LayoutStrategy = "Spiral" =>
        Cardinality(SlotKeys) <= MaxVisibleEntries + 2 * NumDeactivatedEntries

\* C35: a scroll animation started with Duration > 0 and not preempted ends:
\* after Duration ticks bIsAnimating is false and the pointer angle is the
\* target angle exactly; with Duration <= 0 the pointer is at the target at
\* once and no animation runs.
C35_AnimationEndsOnTarget ==
    /\ lastOp = "BeginAngleAnimationFloat" =>
           IF callArg[3] <= 0
           THEN ~callResult.bIsAnimating /\ callResult.Angle = callArg[2]
           ELSE callResult.bIsAnimating /\ callResult.Angle = callArg[1]
    /\ lastOp = "NativeTickFloat" =>
           /\ callResult.ElapsedTime <= callResult.Duration
           /\ callResult.bIsAnimating <=> callResult.ElapsedTime < callResult.Duration
           /\ ~callResult.bIsAnimating => callResult.Angle = callArg[2]

\* C36: after ResetInput, also as run by SetItems, the pointer angle is 0, no
\* animation runs and no data item is focused, for wheel and spiral and for
\* every item count and segment count.
C36_ResetInputClearsFocus ==
    lastOp \in {"ResetInput", "SetItems"} =>
        /\ CurrentPointerAngle = 0
        /\ ~RuntimeScrollingAnimState.bIsAnimating
        /\ FocusedDataIndex = INDEX_NONE

\* C37: once SetItems was called with an empty array, then and after every
\* later reconciliation, no entry slot is allocated and no entry widget is
\* checked out of the pool.
C37_NoItemsNoEntries ==
    (Items = << >> /\ lastOp \in {"SetItems", "UpdateWidgets", "NativeTick"}) =>
        /\ SlotKeys = {}
        /\ PoolActive = {}

\* C38: StepIndexAnimated(Delta) with n > 0 items and the focused data index c
\* steps to the data index (c + Delta) modulo n, the modulo taken
\* non-negative, for backward steps of several items and from no focus too;
\* the index is always one of 0 .. n - 1.
C38_StepTargetIsTheModulo ==
    (lastOp = "StepIndexAnimated" /\ Len(Items) > 0) =>
        /\ callResult \in 0 .. Len(Items) - 1
        /\ callResult = (((FocusedDataIndex + callArg) % Len(Items)) + Len(Items)) % Len(Items)

\* C39: on a spiral with a focused data item, ScrollToCenterOfFocusedWedge
\* leaves the pointer on the centre angle of the focused global index, having
\* moved it by at most half the angular spacing, and the strategy still
\* focuses that index.
C39_RecentreStaysOnFocusedWedge ==
    (/\ lastOp = "ScrollToCenterOfFocusedWedge"
     /\ LayoutStrategy = "Spiral"
     /\ FocusedDataIndex # INDEX_NONE
     /\ Len(Items) > 0) =>
        /\ CurrentPointerAngle = FocusedGlobalIndex * AngularSpacing
        /\ 2 * Abs(CurrentPointerAngle - callArg) <= AngularSpacing
        /\ FindFocusedGlobalIndex(Host) = {FocusedGlobalIndex}

\* C40: the debounce flags of StepIndexAnimated belong to one widget: the
\* duration chosen for a step on a widget is the one its own earlier steps
\* alone determine, whatever steps were made on the other widget.
C40_DebounceStateIsPerWidget ==
    lastOp = "StepIndexAnimatedWithStatics" =>
        callResult.FinalDuration = callResult.AloneDuration

====
